---- MODULE Spec2Model ----
(***************************************************************************)
(* VIMA_Gen: the failure-memory store (failed_store.py) and the three-stage *)
(* verifier (verifier.py).                                                  *)
(*                                                                          *)
(* Text is modelled as a sequence of one-character strings, so that strip,  *)
(* splitlines, join, slicing and substring search are computed character by *)
(* character as Python computes them.                                       *)
(***************************************************************************)
EXTENDS Integers, Sequences, FiniteSets, TLC

VARIABLES
    \* ---- failed_store.py ----
    file,        \* the failure-memory file: [kind, items]
    appends,     \* number of append_failed calls made so far
    lastCall,    \* the last call made, with its arguments and locals
    ret,         \* return value of the last call
    parts,       \* get_past_failures_for_prompt's local list `parts` at return
    storeRaised, \* the exception the last failed_store call raised, if any
    \* ---- verifier.py: one run of verify_task_code ----
    pc,          \* position of the run
    code,        \* the text handed to verify_task_code
    local_ns,    \* what exec(code) left in the namespace, once it returned
    TaskCls,     \* the class load_task_class_from_code returned
    task,        \* attributes of the task instance
    env,         \* the local `env`
    action,      \* the local `action`
    step,        \* index of the next iteration of the oracle loop
    done,        \* the local `done`
    success,     \* the local `success`
    info,        \* the local `info`
    pending,     \* the exception being handled, or propagating
    events,      \* collaborator calls made so far, in order
    passed,      \* stages whose "check passed" line was printed
    closeCalls,  \* number of env.close() invocations
    stepped,     \* the action last handed to env.step
    verdict,     \* the returned tuple (success, failed_step, error_message)
    \* ---- cli.py: one run of main ----
    gpc,         \* position of main
    args,        \* the parsed arguments: [n, save]
    cand,        \* the loop variable i
    past_failures_text, \* the local of that name
    proposal,    \* the local `proposal`
    candCode,    \* the local `code` of main
    result,      \* the locals (ok, failed_step, error_msg)
    trace,       \* the calls main has made so far, in order
    generated_tasks, \* the files in the generated-task directory
    mainRaised,  \* the exception that left main, if any
    \* ---- task_index.py ----
    registry,    \* vima_bench.tasks.ALL_TASKS: the (key, class) pairs in order
    gen_dir,     \* the generated_tasks directory: None, or its files
    listing,     \* what os.listdir returned to the last call
    docs,        \* what the last call of load_all_task_docs returned
    prevDocs,    \* what the call before it returned
    indexRaised, \* the exception the last call raised, if any
    loads,       \* number of calls of load_all_task_docs so far
    \* ---- failed_store.py: append_failed in two processes at once ----
    procs,       \* each process's position in append_failed and its locals
    bytes        \* length of the store file's content, in bytes

storeVars == <<file, appends, lastCall, ret, parts, storeRaised>>
verifyVars == <<pc, code, local_ns, TaskCls, task, env, action, step, done, success,
                info, pending, events, passed, closeCalls, stepped, verdict>>
genVars == <<gpc, args, cand, past_failures_text, proposal, candCode, result,
             trace, generated_tasks, mainRaised>>
indexVars == <<registry, gen_dir, listing, docs, prevDocs, indexRaised, loads>>
concVars == <<procs, bytes>>
vars == <<file, appends, lastCall, ret, parts, storeRaised, pc, code, local_ns,
          TaskCls,
          task, env, action, step, done, success, info, pending, events,
          passed, closeCalls, stepped, verdict, gpc, args, cand,
          past_failures_text, proposal, candCode, result, trace,
          generated_tasks, mainRaised, registry, gen_dir, listing, docs,
          prevDocs, indexRaised, loads, procs, bytes>>

\* Python's None and a value that is not None
None == <<>>
Some(x) == <<x>>

(***************************************************************************)
(* Bounds of the model.                                                    *)
(***************************************************************************)
\* append_failed calls explored from each initial store
MaxAppends == 2
\* how far beyond a limit (lines of code, stored records) inputs go
MaxOver == 2
\* fragments a candidate text is put together from
MaxFrags == 3
\* largest oracle_max_steps a task instance declares
MaxBudget == 2
\* most entries of the task registry
MaxTasks == 2
\* most files in the generated-task directory
MaxFiles == 3
\* most calls of load_all_task_docs
MaxLoads == 2

(***************************************************************************)
(* Program constants.                                                      *)
(***************************************************************************)
CODE_SNIPPET_LINES == 35
MAX_ENTRIES == 25
\* data[-15:] in get_past_failures_for_prompt
PROMPT_ENTRIES == 15
\* err[:500] and len(err) > 500 in get_past_failures_for_prompt
ERROR_CHARS == 500
\* getattr(task, "oracle_max_steps", 10)
DEFAULT_ORACLE_STEPS == 10

(***************************************************************************)
(* Python text primitives.                                                 *)
(***************************************************************************)
Min(a, b) == IF a < b THEN a ELSE b
Max(a, b) == IF a > b THEN a ELSE b

Rep(c, n) == [i \in 1..n |-> c]

\* str.strip() with no argument removes these from both ends
Whitespace == {" ", "\n", "\r", "\t", "\f"}
\* str.splitlines() breaks lines at these (and at "\r\n" as one break)
LineBreaks == {"\n", "\r", "\f"}

RECURSIVE LStrip(_)
LStrip(s) ==
    IF s # <<>> /\ Head(s) \in Whitespace THEN LStrip(Tail(s)) ELSE s

RECURSIVE RStrip(_)
RStrip(s) ==
    IF s # <<>> /\ s[Len(s)] \in Whitespace
    THEN RStrip(SubSeq(s, 1, Len(s) - 1))
    ELSE s

Strip(s) == RStrip(LStrip(s))

\* s.splitlines() on s[lo..hi]: the lines ended by a line break, then the
\* unended rest as last element. The text is halved rather than scanned, to
\* keep the evaluation shallow; the "\n" of a "\r\n" ends no line of its own.
RECURSIVE SplitRange(_, _, _)
SplitRange(s, lo, hi) ==
    IF lo > hi THEN <<<<>>>>
    ELSE IF lo = hi
    THEN IF s[lo] \in LineBreaks
         THEN IF s[lo] = "\n" /\ lo > 1 /\ s[lo - 1] = "\r"
              THEN <<<<>>>>
              ELSE <<<<>>, <<>>>>
         ELSE <<<<s[lo]>>>>
    ELSE LET mid   == (lo + hi) \div 2
             left  == SplitRange(s, lo, mid)
             right == SplitRange(s, mid + 1, hi)
         IN  SubSeq(left, 1, Len(left) - 1)
                 \o <<left[Len(left)] \o right[1]>>
                 \o Tail(right)

\* s.splitlines(): the lines without their line breaks; a final line break
\* starts no further line
SplitLines(s) ==
    LET pieces == SplitRange(s, 1, Len(s))
    IN  IF pieces[Len(pieces)] = <<>>
        THEN SubSeq(pieces, 1, Len(pieces) - 1)
        ELSE pieces

RECURSIVE JoinRange(_, _, _, _)
JoinRange(items, sep, lo, hi) ==
    IF lo > hi THEN <<>>
    ELSE IF lo = hi THEN items[lo]
    ELSE LET mid == (lo + hi) \div 2
         IN  JoinRange(items, sep, lo, mid) \o sep
                 \o JoinRange(items, sep, mid + 1, hi)

\* sep.join(items)
Join(items, sep) == JoinRange(items, sep, 1, Len(items))

\* s[:n] for n >= 0
Prefix(s, n) == SubSeq(s, 1, Min(n, Len(s)))

\* s[-n:] for n > 0
Suffix(s, n) == SubSeq(s, Max(1, Len(s) - n + 1), Len(s))

\* s.startswith(pat)
StartsWith(s, pat) == Len(s) >= Len(pat) /\ SubSeq(s, 1, Len(pat)) = pat

\* `pat in s`
Contains(s, pat) ==
    \E i \in 1..(Len(s) - Len(pat) + 1) : SubSeq(s, i, i + Len(pat) - 1) = pat

Digit(d) == <<"0", "1", "2", "3", "4", "5", "6", "7", "8", "9">>[d + 1]

\* str(n) for an integer n >= 0, as an f-string formats it
RECURSIVE IntToStr(_)
IntToStr(n) ==
    IF n < 10 THEN <<Digit(n)>> ELSE IntToStr(n \div 10) \o <<Digit(n % 10)>>

(***************************************************************************)
(* failed_store.py                                                         *)
(***************************************************************************)
\* "\n# ... (truncated)" without its leading line break
TruncatedMarker ==
    <<"#", " ", ".", ".", ".", " ", "(", "t", "r", "u", "n", "c", "a", "t",
      "e", "d", ")">>

\* lines 38-41: the stored preview of `code`
SnippetOffByOne(src) ==
    LET lines == SplitLines(Strip(src))
        snippet == Join(Prefix(lines, CODE_SNIPPET_LINES), <<"\n">>)
    IN  IF Len(lines) >= CODE_SNIPPET_LINES
        THEN snippet \o <<"\n">> \o TruncatedMarker
        ELSE snippet

Snippet(src) ==
    LET lines == SplitLines(Strip(src))
        snippet == Join(Prefix(lines, CODE_SNIPPET_LINES), <<"\n">>)
    IN  IF Len(lines) > CODE_SNIPPET_LINES
        THEN snippet \o <<"\n">> \o TruncatedMarker
        ELSE snippet

\* lines 43-48: the record that is stored
Entry(src, failed_step, error_message, task_name) ==
    [task_name    |-> IF task_name = None THEN <<>> ELSE task_name,
     failed_step  |-> failed_step,
     error        |-> Strip(error_message),
     code_snippet |-> Snippet(src)]

\* lines 19-27: a missing file, a file that cannot be opened, text that is not
\* JSON and JSON that is not a list all load as the empty list
load_raw(f) == IF f.kind = "list" THEN f.items ELSE <<>>

\* lines 23-25: bytes that are not UTF-8 make f.read() inside json.load raise
\* UnicodeDecodeError, a ValueError that is neither a JSONDecodeError nor an
\* OSError, so the except clause lets it through
load_raw_raises(f) ==
    IF f.kind = "badutf8" THEN Some("UnicodeDecodeError") ELSE None

\* an element of the loaded list that is a JSON object; any other JSON value
\* has no .get
IsDict(e) == "json" \notin DOMAIN e

\* lines 72-75: entry.get(...) on the elements of the window
StanzasRaise(window) ==
    IF \E k \in 1..Len(window) : ~IsDict(window[k])
    THEN Some("AttributeError") ELSE None

\* line 53: open(path, "w") on a file that could not be opened for reading
\* succeeds or raises, depending on why it could not be read
WriteOutcomes(f) ==
    IF f.kind = "unreadable" THEN {None, Some("PermissionError")} ELSE {None}

\* lines 51-52: keep the most recent MAX_ENTRIES
EvictNewest(data) ==
    IF Len(data) > MAX_ENTRIES THEN Prefix(data, MAX_ENTRIES) ELSE data

Evict(data) ==
    IF Len(data) > MAX_ENTRIES THEN Suffix(data, MAX_ENTRIES) ELSE data

\* lines 53-54 then 23-24: json.dump of a list of records with string and
\* integer fields, read back by json.load, is that list again
Written(data) == [kind |-> "list", items |-> data]

\* line 77
ErrorLineCutShort(err) ==
    <<"E", "r", "r", "o", "r", ":", " ">> \o Prefix(err, ERROR_CHARS - 1)
        \o (IF Len(err) > ERROR_CHARS THEN <<".", ".", ".">> ELSE <<>>)

ErrorLine(err) ==
    <<"E", "r", "r", "o", "r", ":", " ">> \o Prefix(err, ERROR_CHARS)
        \o (IF Len(err) > ERROR_CHARS THEN <<".", ".", ".">> ELSE <<>>)

\* line 76
StanzaHeader(i, entry) ==
    <<"-", "-", "-", " ", "F", "a", "i", "l", "u", "r", "e", " ", "#">>
        \o IntToStr(i)
        \o <<" ", "(", "t", "a", "s", "k", "_", "n", "a", "m", "e", "=">>
        \o entry.task_name
        \o <<",", " ", "f", "a", "i", "l", "e", "d", " ", "a", "t", " ",
             "S", "t", "e", "p", " ">>
        \o IntToStr(entry.failed_step)
        \o <<")", " ", "-", "-", "-">>

\* lines 76-80: the five parts one record adds
Stanza(i, entry) ==
    <<StanzaHeader(i, entry),
      ErrorLine(entry.error),
      <<"C", "o", "d", "e", " ", "s", "n", "i", "p", "p", "e", "t", ":">>,
      entry.code_snippet,
      <<>>>>

\* lines 66-70
PartsHeader ==
    <<
      <<"=", "=", "=", "=", "=", "=", "=", "=", "=", "=", " ", "P", "a", "s",
        "t", " ", "f", "a", "i", "l", "u", "r", "e", "s", " ", "(", "a", "v",
        "o", "i", "d", " ", "s", "i", "m", "i", "l", "a", "r", " ", "m", "i",
        "s", "t", "a", "k", "e", "s", ")", " ", "=", "=", "=", "=", "=", "=",
        "=", "=", "=", "=">>,
      <<"T", "h", "e", " ", "f", "o", "l", "l", "o", "w", "i", "n", "g", " ",
        "g", "e", "n", "e", "r", "a", "t", "e", "d", " ", "c", "o", "d", "e",
        " ", "f", "a", "i", "l", "e", "d", " ", "v", "e", "r", "i", "f", "i",
        "c", "a", "t", "i", "o", "n", ".", " ", "D", "o", " ", "N", "O", "T",
        " ", "r", "e", "p", "e", "a", "t", " ", "t", "h", "e", "s", "e", " ",
        "e", "r", "r", "o", "r", "s", ".">>,
      <<>>
    >>

\* line 82
PartsFooter ==
    <<
      <<"=", "=", "=", "=", "=", "=", "=", "=", "=", "=", " ", "E", "n", "d",
        " ", "o", "f", " ", "p", "a", "s", "t", " ", "f", "a", "i", "l", "u",
        "r", "e", "s", " ", "=", "=", "=", "=", "=", "=", "=", "=", "=", "=">>
    >>

\* lines 71-80: the loop over data[-15:], numbered from 1, adds five parts
\* per record
Stanzas(window) ==
    [j \in 1..(5 * Len(window)) |->
        Stanza(((j - 1) \div 5) + 1, window[((j - 1) \div 5) + 1])[((j - 1) % 5) + 1]]

\* lines 66-82: `parts` for a non-empty list
PromptPartsOldest(data) ==
    PartsHeader \o Stanzas(Prefix(data, PROMPT_ENTRIES)) \o PartsFooter

PromptParts(data) ==
    PartsHeader \o Stanzas(Suffix(data, PROMPT_ENTRIES)) \o PartsFooter

\* lines 62-83
PastFailuresText(data) ==
    IF data = <<>> THEN <<>> ELSE Join(PromptParts(data), <<"\n">>)

(***************************************************************************)
(* Inputs and initial stores of the failure-memory model.                  *)
(***************************************************************************)
CodeLines(n) == Join(Rep(<<"a">>, n), <<"\n">>)

\* texts of 0 and of CODE_SNIPPET_LINES .. CODE_SNIPPET_LINES + MaxOver lines,
\* one padded with blank lines around CODE_SNIPPET_LINES lines, one whose last
\* line reads like the marker, one with a "\r\n" line break
Codes ==
    {CodeLines(n) : n \in {0} \cup
        (CODE_SNIPPET_LINES .. (CODE_SNIPPET_LINES + MaxOver))}
    \cup {<<"\n", " ">> \o CodeLines(CODE_SNIPPET_LINES) \o <<"\n", "\n">>}
    \cup {CodeLines(CODE_SNIPPET_LINES - 1) \o <<"\n">> \o TruncatedMarker}
    \cup {CodeLines(CODE_SNIPPET_LINES) \o <<"\r", "\n", "b">>}

\* (failed_step, error_message, task_name) of a call of append_failed
FailureArgs ==
    {[failed_step |-> 1, error_message |-> <<" ", "e", "\n">>,
      task_name |-> None],
     [failed_step |-> 2, error_message |-> Rep("e", ERROR_CHARS),
      task_name |-> <<"t">>],
     [failed_step |-> 3, error_message |-> Rep("e", ERROR_CHARS + 1) \o <<" ">>,
      task_name |-> <<"t">>]}

\* the i-th record of an initial store; every seventh one has an error text
\* around ERROR_CHARS characters long
InitRec(i) ==
    [task_name    |-> <<"t">>,
     failed_step  |-> (i % 3) + 1,
     error        |-> Rep("e", IF i % 7 = 0
                               THEN ERROR_CHARS - 2 + (i \div 7)
                               ELSE i),
     code_snippet |-> <<"a">>]

InitFiles ==
    {[kind |-> k, items |-> <<>>] :
        k \in {"missing", "unreadable", "badutf8", "badjson", "notlist"}}
    \cup {[kind |-> "list", items |-> <<[json |-> "number"]>>]}
    \cup {[kind |-> "list", items |-> [i \in 1..n |-> InitRec(i)]] :
            n \in {1, MAX_ENTRIES - 1, MAX_ENTRIES, MAX_ENTRIES + MaxOver}}

StoreInit ==
    /\ file \in InitFiles
    /\ appends = 0
    /\ lastCall = [op |-> "none"]
    /\ ret = None
    /\ parts = <<>>
    /\ storeRaised = None

(***************************************************************************)
(* failed_store.py: the two operations.                                    *)
(***************************************************************************)
\* lines 30-54; an exception from _load_raw (line 49) or from open (line 53)
\* leaves the file as it was
append_failed(src, failed_step, error_message, task_name) ==
    LET entry == Entry(src, failed_step, error_message, task_name)
        data  == load_raw(file)
    IN  /\ appends < MaxAppends
        /\ appends' = appends + 1
        /\ lastCall' = [op |-> "append_failed", code |-> src, entry |-> entry,
                        loaded |-> data, from |-> file.kind]
        /\ ret' = None
        /\ parts' = <<>>
        /\ IF load_raw_raises(file) # None
           THEN /\ storeRaised' = load_raw_raises(file)
                /\ UNCHANGED file
           ELSE \E w \in WriteOutcomes(file) :
                  /\ storeRaised' = w
                  /\ file' = IF w = None
                             THEN Written(Evict(Append(data, entry)))
                             ELSE file

\* lines 57-83
get_past_failures_for_prompt ==
    LET data   == load_raw(file)
        raised == IF load_raw_raises(file) # None THEN load_raw_raises(file)
                  ELSE StanzasRaise(Suffix(data, PROMPT_ENTRIES))
    IN  /\ lastCall.op # "get_past_failures_for_prompt"
        /\ lastCall' = [op |-> "get_past_failures_for_prompt"]
        /\ storeRaised' = raised
        /\ ret' = IF raised = None THEN Some(PastFailuresText(data)) ELSE None
        /\ parts' = IF raised = None /\ data # <<>>
                    THEN PromptParts(data) ELSE <<>>
        /\ UNCHANGED <<file, appends>>

StoreNext ==
    \/ \E src \in Codes, a \in FailureArgs :
         /\ append_failed(src, a.failed_step, a.error_message, a.task_name)
         /\ UNCHANGED <<verifyVars, genVars, indexVars, concVars>>
    \/ /\ get_past_failures_for_prompt
       /\ UNCHANGED <<verifyVars, genVars, indexVars, concVars>>

(***************************************************************************)
(* verifier.py: values.                                                    *)
(***************************************************************************)
\* the task instance before it exists
NoTask == [has_oracle_max_steps |-> FALSE, oracle_max_steps |-> 0,
           goals |-> "unset", all_goals |-> "unset"]

\* line 140: info = {}; a payload tells the info mappings of the steps apart
EmptyInfo == [success |-> "absent", payload |-> 0]

VerifyIdle ==
    /\ pc = "idle"
    /\ code = <<>>
    /\ local_ns = None
    /\ TaskCls = None
    /\ task = NoTask
    /\ env = None
    /\ action = None
    /\ step = 0
    /\ done = FALSE
    /\ success = FALSE
    /\ info = EmptyInfo
    /\ pending = None
    /\ events = <<>>
    /\ passed = {}
    /\ closeCalls = 0
    /\ stepped = None
    /\ verdict = None

\* main is not running
GenIdle ==
    /\ gpc = "idle"
    /\ args = [n |-> 0, save |-> FALSE]
    /\ cand = 0
    /\ past_failures_text = None
    /\ proposal = None
    /\ candCode = <<>>
    /\ result = None
    /\ trace = <<>>
    /\ generated_tasks = {}
    /\ mainRaised = None

\* no corpus has been built
IndexIdle ==
    /\ registry = <<>>
    /\ gen_dir = None
    /\ listing = <<>>
    /\ docs = None
    /\ prevDocs = None
    /\ indexRaised = None
    /\ loads = 0

\* no process is inside append_failed
ConcIdle ==
    /\ procs = <<>>
    /\ bytes = 0

\* the failure-memory operations alone, with no verification running
StoreSpecInit == StoreInit /\ VerifyIdle /\ GenIdle /\ IndexIdle /\ ConcIdle

StoreSpec == StoreSpecInit /\ [][StoreNext]_vars

(***************************************************************************)
(* Claims about the failure-memory store.                                  *)
(***************************************************************************)
\* the last call was append_failed and it returned
Appended == lastCall.op = "append_failed" /\ storeRaised = None

\* C1: after every append_failed the stored list has at most MAX_ENTRIES
\* records and is exactly the last min(length, MAX_ENTRIES) elements of the
\* previously stored list followed by the new record, in insertion order
\* (also when the previous list was already longer than MAX_ENTRIES).
C1_FifoEviction ==
    Appended =>
        LET full == lastCall.loaded \o <<lastCall.entry>>
            now  == load_raw(file)
            n    == Len(now)
        IN  /\ file.kind = "list"
            /\ n <= MAX_ENTRIES
            /\ n = Min(Len(full), MAX_ENTRIES)
            /\ \A i \in 1..n : now[i] = full[Len(full) - n + i]

\* a second append onto a list that was longer than MAX_ENTRIES at the start,
\* evicting old records
C1_Witness ==
    /\ Appended
    /\ appends = 2
    /\ Len(lastCall.loaded) = MAX_ENTRIES
    /\ Len(load_raw(file)) = MAX_ENTRIES
    /\ load_raw(file)[1] = InitRec(MaxOver + 3)

\* the snippet of the last record, read back from the raw store
StoredSnippet == load_raw(file)[Len(load_raw(file))].code_snippet

\* C9 as stated: the stored snippet has at most CODE_SNIPPET_LINES lines, and
\* the marker line is present in it iff the source had more than
\* CODE_SNIPPET_LINES lines.
C9_AsStated ==
    Appended =>
        LET snLines == SplitLines(StoredSnippet)
        IN  /\ Len(snLines) <= CODE_SNIPPET_LINES
            /\ (\E i \in 1..Len(snLines) : snLines[i] = TruncatedMarker)
                 <=> Len(SplitLines(lastCall.code)) > CODE_SNIPPET_LINES

\* C9 amended: the stored snippet holds the first min(n, CODE_SNIPPET_LINES)
\* lines of the stripped source (n its number of lines), and the marker is
\* appended as one further line iff n > CODE_SNIPPET_LINES; so it has at most
\* CODE_SNIPPET_LINES + 1 lines, and CODE_SNIPPET_LINES + 1 only when cut.
C9_SnippetRoundTrip ==
    Appended =>
        LET snLines  == SplitLines(StoredSnippet)
            srcLines == SplitLines(Strip(lastCall.code))
            n        == Len(srcLines)
            kept     == Min(n, CODE_SNIPPET_LINES)
        IN  /\ Len(snLines) <= CODE_SNIPPET_LINES + 1
            /\ \A i \in 1..kept : snLines[i] = srcLines[i]
            /\ IF n > CODE_SNIPPET_LINES
               THEN /\ Len(snLines) = CODE_SNIPPET_LINES + 1
                    /\ snLines[CODE_SNIPPET_LINES + 1] = TruncatedMarker
               ELSE Len(snLines) = n

\* a source of more than CODE_SNIPPET_LINES lines was appended and cut
C9_Witness ==
    /\ Appended
    /\ Len(SplitLines(Strip(lastCall.code))) > CODE_SNIPPET_LINES
    /\ Len(SplitLines(StoredSnippet)) = CODE_SNIPPET_LINES + 1

\* the last call was get_past_failures_for_prompt and it returned
Rendered == lastCall.op = "get_past_failures_for_prompt" /\ storeRaised = None

\* get_past_failures_for_prompt leaves the file alone, so right after it the
\* list it loaded is the list in the file
RenderedFrom == load_raw(file)

\* total length of ps[lo..hi], each followed by one separator character
RECURSIVE SpanLen(_, _, _)
SpanLen(ps, lo, hi) ==
    IF lo > hi THEN 0
    ELSE IF lo = hi THEN Len(ps[lo]) + 1
    ELSE SpanLen(ps, lo, (lo + hi) \div 2)
             + SpanLen(ps, ((lo + hi) \div 2) + 1, hi)

\* where parts[j] starts in "\n".join(parts), counted from 0
PartOffset(ps, j) == SpanLen(ps, 1, j - 1)

\* the text of parts[j] as it stands in the returned string
Shown(j) == SubSeq(ret[1], PartOffset(parts, j) + 1,
                   PartOffset(parts, j) + Len(parts[j]))

\* C10: get_past_failures_for_prompt returns the empty string iff the loaded
\* store is empty; otherwise the returned text holds, for each rendered
\* record, its stage number and its error cut to at most ERROR_CHARS
\* characters, followed by "..." iff the stored error was longer.
C10_RenderedErrors ==
    Rendered =>
        LET window == Suffix(RenderedFrom, PROMPT_ENTRIES)
        IN  /\ (ret[1] = <<>>) <=> (RenderedFrom = <<>>)
            /\ \A k \in 1..Len(window) :
                 LET e    == window[k]
                     hdr  == Shown(3 + 5 * (k - 1) + 1)
                     line == Shown(3 + 5 * (k - 1) + 2)
                     text == SubSeq(line, 8, Len(line))
                     cut  == Prefix(e.error, ERROR_CHARS)
                 IN  /\ Contains(hdr, <<"S", "t", "e", "p", " ">>
                                        \o IntToStr(e.failed_step) \o <<")">>)
                     /\ Len(cut) <= ERROR_CHARS
                     /\ text = IF Len(e.error) > ERROR_CHARS
                               THEN cut \o <<".", ".", ".">>
                               ELSE cut

\* a non-empty store was rendered whose window holds an error longer than
\* ERROR_CHARS and one of exactly ERROR_CHARS characters
C10_Witness ==
    /\ Rendered
    /\ ret[1] # <<>>
    /\ \E k \in 1..Len(RenderedFrom) :
         /\ k > Len(RenderedFrom) - PROMPT_ENTRIES
         /\ Len(RenderedFrom[k].error) > ERROR_CHARS
    /\ \E k \in 1..Len(RenderedFrom) :
         /\ k > Len(RenderedFrom) - PROMPT_ENTRIES
         /\ Len(RenderedFrom[k].error) = ERROR_CHARS

\* C11: for a non-empty store of n records the returned text is the banner,
\* then exactly min(n, PROMPT_ENTRIES) stanzas, then the closing line and
\* nothing else; the k-th stanza is numbered k and shows the record at
\* position n - min(n, PROMPT_ENTRIES) + k of the store, so the stanzas are
\* the most recent records, oldest of the window first.
C11_RecentWindow ==
    (Rendered /\ RenderedFrom # <<>>) =>
        LET data == RenderedFrom
            n    == Len(data)
            m    == Min(n, PROMPT_ENTRIES)
        IN  /\ Len(parts) = 3 + 5 * m + 1
            /\ Len(ret[1]) = PartOffset(parts, Len(parts) + 1) - 1
            /\ Shown(Len(parts)) = PartsFooter[1]
            /\ \A k \in 1..m :
                 LET e == data[n - m + k]
                 IN  /\ Shown(3 + 5 * (k - 1) + 1) = StanzaHeader(k, e)
                     /\ Shown(3 + 5 * (k - 1) + 2) = ErrorLine(e.error)
                     /\ Shown(3 + 5 * (k - 1) + 4) = e.code_snippet

\* a store of more than PROMPT_ENTRIES records, the last one just appended,
\* was rendered
C11_Witness ==
    /\ Rendered
    /\ appends > 0
    /\ Len(RenderedFrom) > PROMPT_ENTRIES
    /\ Len(parts) = 3 + 5 * PROMPT_ENTRIES + 1
    /\ RenderedFrom[Len(RenderedFrom)].failed_step = 3
    /\ RenderedFrom[Len(RenderedFrom) - 1].failed_step # 3

\* the file was, when the last call was made, anything but a JSON list of
\* records
Corrupt ==
    IF lastCall.op = "append_failed"
    THEN \/ lastCall.from # "list"
         \/ \E i \in 1..Len(lastCall.loaded) : ~IsDict(lastCall.loaded[i])
    ELSE \/ file.kind # "list"
         \/ \E i \in 1..Len(file.items) : ~IsDict(file.items[i])

\* C12: on a failure-memory file that is missing, unreadable, not valid
\* encoded text, not JSON, not a list, or a list of elements that are not
\* records, append_failed and get_past_failures_for_prompt return without
\* raising and behave as on an empty store: the append stores exactly the new
\* record, the rendering is the empty string.
C12_CorruptStoreIsEmpty ==
    (lastCall.op # "none" /\ Corrupt) =>
        /\ storeRaised = None
        /\ lastCall.op = "append_failed" =>
              (file.kind = "list" /\ file.items = <<lastCall.entry>>)
        /\ lastCall.op = "get_past_failures_for_prompt" => ret = Some(<<>>)

(***************************************************************************)
(* verifier.py: Stage 1 on the text.                                       *)
(***************************************************************************)
OraclePattern == <<"d", "e", "f", " ", "o", "r", "a", "c", "l", "e", "(">>

GoalsPattern ==
    <<"s", "e", "l", "f", ".", "g", "o", "a", "l", "s", ".", "a", "p", "p",
      "e", "n", "d", "(">>

SnapshotPattern ==
    <<"s", "e", "l", "f", ".", "_", "a", "l", "l", "_", "g", "o", "a", "l",
      "s", " ", "=", " ", "s", "e", "l", "f", ".", "g", "o", "a", "l", "s",
      ".", "c", "o", "p", "y", "(", ")">>

\* an error message: a fixed text, or an f-string with the values put into it
Msg(text) == [text |-> text, args |-> <<>>]

\* lines 38-48: (ok, message)
structural_checks_oracle_at_start(src) ==
    IF StartsWith(src, OraclePattern)
    THEN <<FALSE, Msg("Should not override oracle(); inherit BaseTask.oracle instead.")>>
    ELSE IF ~Contains(src, GoalsPattern)
    THEN <<FALSE, Msg("No self.goals.append(...) found in reset(); oracle has no goals to follow.")>>
    ELSE IF ~Contains(src, SnapshotPattern)
    THEN <<FALSE, Msg("Missing self._all_goals = self.goals.copy() after setting goals.")>>
    ELSE <<TRUE, Msg("")>>

structural_checks(src) ==
    IF Contains(src, OraclePattern)
    THEN <<FALSE, Msg("Should not override oracle(); inherit BaseTask.oracle instead.")>>
    ELSE IF ~Contains(src, GoalsPattern)
    THEN <<FALSE, Msg("No self.goals.append(...) found in reset(); oracle has no goals to follow.")>>
    ELSE IF ~Contains(src, SnapshotPattern)
    THEN <<FALSE, Msg("Missing self._all_goals = self.goals.copy() after setting goals.")>>
    ELSE <<TRUE, Msg("")>>

Lower ==
    {"a", "b", "c", "d", "e", "f", "g", "h", "i", "j", "k", "l", "m", "n",
     "o", "p", "q", "r", "s", "t", "u", "v", "w", "x", "y", "z"}
Upper ==
    {"A", "B", "C", "D", "E", "F", "G", "H", "I", "J", "K", "L", "M", "N",
     "O", "P", "Q", "R", "S", "T", "U", "V", "W", "X", "Y", "Z"}
Digits == {"0", "1", "2", "3", "4", "5", "6", "7", "8", "9"}
\* [A-Za-z_] and [A-Za-z0-9_]
IdentStart == Lower \cup Upper \cup {"_"}
IdentChar == IdentStart \cup Digits
\* \s
RegexSpace == {" ", "\n", "\r", "\t", "\f"}

\* the first position from p on whose character is not in S (Len(s) + 1 when
\* there is none)
SkipWhile(s, p, S) ==
    CHOOSE q \in p..(Len(s) + 1) :
        /\ q = Len(s) + 1 \/ s[q] \notin S
        /\ \A r \in p..(q - 1) : s[r] \in S

\* line 27: class\s+([A-Za-z_][A-Za-z0-9_]*)\s*\( matched at position i;
\* the result is <<matched, name>>
ClassMatchAt(s, i) ==
    IF i + 4 > Len(s)
        \/ SubSeq(s, i, Min(i + 4, Len(s))) # <<"c", "l", "a", "s", "s">>
    THEN <<FALSE, <<>>>>
    ELSE LET n0 == SkipWhile(s, i + 5, RegexSpace)
             n1 == SkipWhile(s, Min(n0 + 1, Len(s) + 1), IdentChar)
             p  == SkipWhile(s, n1, RegexSpace)
         IN  IF /\ n0 > i + 5
                /\ n0 <= Len(s)
                /\ s[n0] \in IdentStart
                /\ p <= Len(s)
                /\ s[p] = "("
             THEN <<TRUE, SubSeq(s, n0, n1 - 1)>>
             ELSE <<FALSE, <<>>>>

\* lines 26-30: re.search takes the leftmost match; None stands for the
\* ValueError raised when there is none
extract_class_name(src) ==
    LET hits == {i \in 1..Len(src) : ClassMatchAt(src, i)[1]}
    IN  IF hits = {} THEN None
        ELSE Some(ClassMatchAt(src, CHOOSE i \in hits : \A j \in hits : i <= j)[2])

(***************************************************************************)
(* verifier.py: the collaborators. What exec of the text, the task class,  *)
(* the environment and the oracle policy do is not decided by this         *)
(* repository: each call returns one of its possible results or raises.    *)
(***************************************************************************)
\* an exception: `cls` is "Exception" for what `except Exception` catches and
\* "BaseException" for SystemExit, KeyboardInterrupt and the like
Exc(cls, text) == [cls |-> cls, msg |-> Msg(text)]

\* str(e)
Str(e) == e.msg

ExcClasses == {"Exception", "BaseException"}

\* what local_ns holds under the extracted class name after exec
NamespaceEntries == {"missing", "BaseTask subclass", "other class", "not a class"}

\* the name the first class statement of the text declares: the first match
\* of the pattern that opens a line (a match inside a comment or after other
\* text on its line is no statement), or None
DeclaredClassName(src) ==
    LET hits == {i \in 1..Len(src) :
                    /\ ClassMatchAt(src, i)[1]
                    /\ i = 1 \/ src[i - 1] = "\n"}
    IN  IF hits = {} THEN None
        ELSE Some(ClassMatchAt(src, CHOOSE i \in hits : \A j \in hits : i <= j)[2])

\* line 56: the namespaces exec(code) can leave when it returns. `declared`
\* is the class the first class statement made, `found` is what
\* local_ns.get(cls_name) gives at line 59: the declared class when cls_name
\* is its name, anything otherwise
ExecNamespaces(src) ==
    {ns \in [declared : {"none", "BaseTask subclass", "other class"},
             found    : NamespaceEntries] :
        /\ (ns.declared = "none") <=> (DeclaredClassName(src) = None)
        /\ extract_class_name(src) = None => ns.found = "missing"
        /\ (/\ extract_class_name(src) # None
            /\ extract_class_name(src) = DeclaredClassName(src))
             => ns.found = ns.declared}

\* outcomes of a call that returns nothing this model reads
CallOutcomes == {"returns", "Exception", "BaseException"}

\* the task after reset(): goals and _all_goals unset (or None), empty or filled
GoalStates == {"unset", "empty", "filled"}

\* info["success"] as env.step reports it
SuccessFlags == {"absent", "False", "True"}

\* bool(info.get("success"))
Truthy(flag) == flag = "True"

\* the one field of an action, its declared range, and the values a policy
\* proposes for it
ActionLow == 0
ActionHigh == 1
ProposedValues == (ActionLow - 1)..(ActionHigh + 1)

\* np.clip with the upper bound left out
ClipLowOnly(v, low, high) == Max(v, low)

\* np.clip(v, low, high)
Clip(v, low, high) == Min(Max(v, low), high)

\* getattr(task, "oracle_max_steps", 10)
OracleMaxSteps(tk) ==
    IF tk.has_oracle_max_steps THEN tk.oracle_max_steps ELSE DEFAULT_ORACLE_STEPS

\* line 166: the message of a run that did not succeed
NotCompletedMsg(tk, inf) ==
    [text |-> "Did not complete the task within {} steps. info={}",
     args |-> <<OracleMaxSteps(tk), inf>>]

\* the returned tuples
Pass == Some([success |-> TRUE, failed_step |-> None, error_message |-> None])

FailWithoutStage(k, m) ==
    Some([success |-> FALSE, failed_step |-> None, error_message |-> Some(m)])

Fail(k, m) ==
    Some([success |-> FALSE, failed_step |-> Some(k), error_message |-> Some(m)])

\* candidate texts: up to MaxFrags different fragments, one per line; the
\* last fragment is a comment that names a class, followed by a class
\* statement
Fragments ==
    {OraclePattern, GoalsPattern, SnapshotPattern,
     <<"#", " ", "c", "l", "a", "s", "s", " ", "C", "(", "x", ")", "\n", "c", "l", "a", "s", "s", " ", "T", "(", "B", "a", "s", "e", "T", "a", "s", "k", ")", ":">>,
     <<"c", "l", "a", "s", "s", " ", "T", "(", "B", "a", "s", "e", "T", "a",
       "s", "k", ")", ":">>,
     <<"d", "e", "f", " ", "o", "r", "a", "c", "l", "e", "_", "x", "(">>}

Texts ==
    {Join(fs, <<"\n">>) :
        fs \in {f \in UNION {[1..n -> Fragments] : n \in 0..MaxFrags} :
                    \A i, j \in DOMAIN f : i # j => f[i] # f[j]}}

(***************************************************************************)
(* verifier.py: verify_task_code, one action per collaborator call.        *)
(***************************************************************************)
\* an exception leaves verify_task_code uncaught
Propagate(e) ==
    /\ pc' = "raised"
    /\ pending' = Some(e)

\* line 67: the call
Call(text) ==
    /\ pc = "idle"
    /\ code' = text
    /\ pc' = "structural"
    /\ UNCHANGED <<local_ns, TaskCls, task, env, action, step, done, success, info,
                   pending, events, passed, closeCalls, stepped, verdict>>

\* lines 80-86, with the text loaded whatever the static checks said
StructuralChecksThenLoad ==
    /\ pc = "structural"
    /\ events' = Append(events, "structural_checks")
    /\ pc' = "load"
    /\ UNCHANGED <<code, local_ns, TaskCls, task, env, action, step, done, success, info,
                   pending, passed, closeCalls, stepped, verdict>>

\* lines 80-84
StructuralChecks ==
    /\ pc = "structural"
    /\ events' = Append(events, "structural_checks")
    /\ IF structural_checks(code)[1]
       THEN /\ pc' = "load"
            /\ UNCHANGED verdict
       ELSE /\ pc' = "returned"
            /\ verdict' = Fail(1, structural_checks(code)[2])
    /\ UNCHANGED <<code, local_ns, TaskCls, task, env, action, step, done, success, info,
                   pending, passed, closeCalls, stepped>>

\* lines 51-64 as called at line 86: the exception load_task_class_from_code
\* raises once exec(code) has returned and left `entry` under the class name,
\* or None when it returns the class
LoadError(src, entry) ==
    IF extract_class_name(src) = None
    THEN Some(Exc("Exception", "Cannot find a class definition in the generated code."))
    ELSE IF entry = "missing"
    THEN Some(Exc("Exception", "Cannot find class {} in the exec environment"))
    ELSE IF entry = "not a class"
    THEN Some(Exc("Exception", "issubclass() arg 1 must be a class"))
    ELSE IF entry = "other class"
    THEN Some(Exc("Exception", "{} does not inherit BaseTask"))
    ELSE None

\* lines 85-93
Load ==
    /\ pc = "load"
    /\ events' = Append(events, "exec")
    /\ \/ /\ \E e \in {Exc(c, m) : c \in ExcClasses,
                                   m \in {"", "invalid syntax"}} :
               \* exec(code) raises
               IF e.cls = "Exception"
               THEN /\ pc' = "returned"
                    /\ verdict' = Fail(1, Str(e))
                    /\ UNCHANGED <<TaskCls, passed, pending>>
               ELSE /\ Propagate(e)
                    /\ UNCHANGED <<TaskCls, passed, verdict>>
          /\ UNCHANGED local_ns
       \/ \E ns \in ExecNamespaces(code) :
            \* exec(code) returns
            /\ local_ns' = Some(ns)
            /\ IF LoadError(code, ns.found) # None
               THEN /\ pc' = "returned"
                    /\ verdict' = Fail(1, Str(LoadError(code, ns.found)[1]))
                    /\ UNCHANGED <<TaskCls, passed, pending>>
               ELSE /\ TaskCls' = extract_class_name(code)
                    /\ passed' = passed \cup {1}
                    /\ pc' = "construct_task"
                    /\ UNCHANGED <<pending, verdict>>
    /\ UNCHANGED <<code, task, env, action, step, done, success, info,
                   closeCalls, stepped>>

\* lines 119-128, with the failure noted and the run going on to Stage 3
RaiseInStage2GoOn(e) ==
    /\ pc' = "oracle"
    /\ pending' = Some(e)

\* an exception raised inside the Stage-2 try block (lines 97-118)
RaiseInStage2(e) ==
    IF e.cls = "Exception"
    THEN /\ pc' = "stage2_except"
         /\ pending' = Some(e)
    ELSE Propagate(e)

\* line 98: TaskCls(debug=False); the instance declares oracle_max_steps or
\* leaves it out
ConstructTask ==
    /\ pc = "construct_task"
    /\ events' = Append(events, "TaskCls")
    /\ \/ \E c \in ExcClasses :
            /\ RaiseInStage2(Exc(c, "TaskCls() raised"))
            /\ UNCHANGED task
       \/ /\ \E tk \in {[NoTask EXCEPT !.has_oracle_max_steps = TRUE,
                                        !.oracle_max_steps = n] :
                            n \in 0..MaxBudget} \cup {NoTask} :
                task' = tk
          /\ pc' = "construct_env"
          /\ UNCHANGED pending
    /\ UNCHANGED <<code, local_ns, TaskCls, env, action, step, done, success, info,
                   passed, closeCalls, stepped, verdict>>

\* lines 99-106: VIMAEnvBase(task=task_instance, ...)
ConstructEnv ==
    /\ pc = "construct_env"
    /\ events' = Append(events, "VIMAEnvBase")
    /\ \/ \E c \in ExcClasses :
            /\ RaiseInStage2(Exc(c, "VIMAEnvBase() raised"))
            /\ UNCHANGED env
       \/ /\ env' = Some("env")
          /\ pc' = "reset"
          /\ UNCHANGED pending
    /\ UNCHANGED <<code, local_ns, TaskCls, task, action, step, done, success, info,
                   passed, closeCalls, stepped, verdict>>

\* lines 107-118: env.reset(), the checks of goals and _all_goals, and the
\* reading of env.prompt and env.prompt_assets for the verbose preview
Reset ==
    /\ pc = "reset"
    /\ events' = Append(events, "reset")
    /\ \/ \E c \in ExcClasses :
            /\ RaiseInStage2(Exc(c, "reset() raised"))
            /\ UNCHANGED <<task, passed>>
       \/ \E g \in GoalStates, ag \in GoalStates, promptOk \in BOOLEAN :
            /\ task' = [task EXCEPT !.goals = g, !.all_goals = ag]
            /\ IF g # "filled"
               THEN /\ RaiseInStage2(Exc("Exception",
                            "After reset() self.goals is empty; the oracle cannot work."))
                    /\ UNCHANGED passed
               ELSE IF ag # "filled"
               THEN /\ RaiseInStage2(Exc("Exception",
                            "After reset() self._all_goals is not initialised."))
                    /\ UNCHANGED passed
               ELSE IF ~promptOk
               THEN /\ RaiseInStage2(Exc("Exception", "prompt preview raised"))
                    /\ UNCHANGED passed
               ELSE /\ passed' = passed \cup {2}
                    /\ pc' = "oracle"
                    /\ UNCHANGED pending
    /\ UNCHANGED <<code, local_ns, TaskCls, env, action, step, done, success, info,
                   closeCalls, stepped, verdict>>

\* lines 119-128, with the teardown left out
Stage2ExceptNoClose ==
    /\ pc = "stage2_except"
    /\ verdict' = Fail(2, Str(pending[1]))
    /\ pc' = "returned"
    /\ UNCHANGED <<code, local_ns, TaskCls, task, env, action, step, done, success, info,
                   pending, events, passed, closeCalls, stepped>>

\* lines 119-128: the handler of Stage 2
Stage2Except ==
    /\ pc = "stage2_except"
    /\ IF env # None
       THEN \E out \in CallOutcomes :
              /\ closeCalls' = closeCalls + 1
              /\ IF out = "BaseException"
                 THEN /\ Propagate(Exc("BaseException", "close() raised"))
                      /\ UNCHANGED verdict
                 ELSE /\ verdict' = Fail(2, Str(pending[1]))
                      /\ pc' = "returned"
                      /\ UNCHANGED pending
       ELSE /\ verdict' = Fail(2, Str(pending[1]))
            /\ pc' = "returned"
            /\ UNCHANGED <<closeCalls, pending>>
    /\ UNCHANGED <<code, local_ns, TaskCls, task, env, action, step, done, success, info,
                   events, passed, stepped>>

\* an exception raised inside the Stage-3 try block (lines 131-175)
RaiseInStage3(e) ==
    IF e.cls = "Exception"
    THEN /\ pc' = "stage3_except"
         /\ pending' = Some(e)
    ELSE Propagate(e)

\* lines 132-140: task.oracle(env)
Oracle ==
    /\ pc = "oracle"
    /\ events' = Append(events, "oracle")
    /\ \/ \E c \in ExcClasses : RaiseInStage3(Exc(c, "oracle() raised"))
       \/ RaiseInStage3(Exc("Exception", "task.oracle(env) returned None"))
       \/ /\ pc' = "loop"
          /\ UNCHANGED pending
    /\ success' = FALSE
    /\ info' = EmptyInfo
    /\ UNCHANGED <<code, local_ns, TaskCls, task, env, action, step, done, passed,
                   closeCalls, stepped, verdict>>

\* lines 142-155, with a None action noted and the loop going on
ActNoneGoesOn ==
    /\ pc = "loop"
    /\ ~done
    /\ step < OracleMaxSteps(task)
    /\ events' = Append(events, "act")
    /\ \/ \E c \in ExcClasses :
            /\ RaiseInStage3(Exc(c, "act() raised"))
            /\ UNCHANGED action
       \/ /\ pending' = Some(Exc("Exception", "The oracle returned None; cannot continue."))
          /\ pc' = "loop"
          /\ UNCHANGED action
       \/ \E v \in ProposedValues :
            /\ action' = Some(v)
            /\ pc' = "step"
            /\ UNCHANGED pending
    /\ UNCHANGED <<code, local_ns, TaskCls, task, env, step, done, success, info, passed,
                   closeCalls, stepped, verdict>>

\* lines 142-155, with the loop going on after a step that reported done
ActAfterDone ==
    /\ pc = "loop"
    /\ step < OracleMaxSteps(task)
    /\ events' = Append(events, "act")
    /\ \/ \E c \in ExcClasses :
            /\ RaiseInStage3(Exc(c, "act() raised"))
            /\ UNCHANGED action
       \/ /\ RaiseInStage3(Exc("Exception", "The oracle returned None; cannot continue."))
          /\ UNCHANGED action
       \/ \E v \in ProposedValues :
            /\ action' = Some(v)
            /\ pc' = "step"
            /\ UNCHANGED pending
    /\ UNCHANGED <<code, local_ns, TaskCls, task, env, step, done, success, info, passed,
                   closeCalls, stepped, verdict>>

\* lines 142-155: the next iteration begins and the policy is asked for an
\* action (what get_true_image does before it is caught and printed)
Act ==
    /\ pc = "loop"
    /\ ~done
    /\ step < OracleMaxSteps(task)
    /\ events' = Append(events, "act")
    /\ \/ \E c \in ExcClasses :
            /\ RaiseInStage3(Exc(c, "act() raised"))
            /\ UNCHANGED action
       \/ /\ RaiseInStage3(Exc("Exception", "The oracle returned None; cannot continue."))
          /\ UNCHANGED action
       \/ \E v \in ProposedValues :
            /\ action' = Some(v)
            /\ pc' = "step"
            /\ UNCHANGED pending
    /\ UNCHANGED <<code, local_ns, TaskCls, task, env, step, done, success, info, passed,
                   closeCalls, stepped, verdict>>

\* line 162, taking every reported completion for a success
SuccessAtDoneAlways(flag) == TRUE

\* line 162: success = bool(info.get("success"))
SuccessAtDone(flag) == Truthy(flag)

\* lines 156-163: the action is clipped and handed to env.step
Step ==
    /\ pc = "step"
    /\ stepped' = Some(Clip(action[1], ActionLow, ActionHigh))
    /\ events' = Append(events, "step")
    /\ \/ \E c \in ExcClasses :
            /\ RaiseInStage3(Exc(c, "step() raised"))
            /\ UNCHANGED <<info, done, success, step>>
       \/ \E d \in BOOLEAN, flag \in SuccessFlags :
            /\ info' = [success |-> flag, payload |-> step + 1]
            /\ done' = d
            /\ success' = IF d THEN SuccessAtDone(flag) ELSE success
            /\ step' = IF d THEN step ELSE step + 1
            /\ pc' = "loop"
            /\ UNCHANGED pending
    /\ UNCHANGED <<code, local_ns, TaskCls, task, env, action, passed, closeCalls,
                   verdict>>

\* lines 165-175, with an error of env.close() ignored on the success path
AfterLoopCloseIgnored ==
    /\ pc = "loop"
    /\ done \/ step >= OracleMaxSteps(task)
    /\ closeCalls' = closeCalls + 1
    /\ \E out \in CallOutcomes :
         IF out = "returns" \/ (out = "Exception" /\ success)
         THEN /\ pc' = "returned"
              /\ IF ~success
                 THEN /\ verdict' = Fail(3, NotCompletedMsg(task, info))
                      /\ UNCHANGED passed
                 ELSE /\ verdict' = Pass
                      /\ passed' = passed \cup {3}
              /\ pending' = IF out = "returns" THEN pending
                            ELSE Some(Exc(out, "close() raised"))
         ELSE /\ RaiseInStage3(Exc(out, "close() raised"))
              /\ passed' = IF success THEN passed \cup {3} ELSE passed
              /\ UNCHANGED verdict
    /\ UNCHANGED <<code, local_ns, TaskCls, task, env, action, step, done, success, info,
                   events, stepped>>

\* lines 165-175: after the loop; env.close() is called inside the try block
AfterLoop ==
    /\ pc = "loop"
    /\ done \/ step >= OracleMaxSteps(task)
    /\ closeCalls' = closeCalls + 1
    /\ \E out \in CallOutcomes :
         IF out = "returns"
         THEN /\ pc' = "returned"
              /\ IF ~success
                 THEN /\ verdict' = Fail(3, NotCompletedMsg(task, info))
                      /\ UNCHANGED passed
                 ELSE /\ verdict' = Pass
                      /\ passed' = passed \cup {3}
              /\ UNCHANGED pending
         ELSE /\ RaiseInStage3(Exc(out, "close() raised"))
              /\ passed' = IF success THEN passed \cup {3} ELSE passed
              /\ UNCHANGED verdict
    /\ UNCHANGED <<code, local_ns, TaskCls, task, env, action, step, done, success, info,
                   events, stepped>>

\* lines 177-186: the handler of Stage 3
Stage3Except ==
    /\ pc = "stage3_except"
    /\ IF env # None
       THEN \E out \in CallOutcomes :
              /\ closeCalls' = closeCalls + 1
              /\ IF out = "BaseException"
                 THEN /\ Propagate(Exc("BaseException", "close() raised"))
                      /\ UNCHANGED verdict
                 ELSE /\ verdict' = Fail(3, Str(pending[1]))
                      /\ pc' = "returned"
                      /\ UNCHANGED pending
       ELSE /\ verdict' = Fail(3, Str(pending[1]))
            /\ pc' = "returned"
            /\ UNCHANGED <<closeCalls, pending>>
    /\ UNCHANGED <<code, local_ns, TaskCls, task, env, action, step, done, success, info,
                   events, passed, stepped>>

StoreIdle ==
    /\ file = [kind |-> "missing", items |-> <<>>]
    /\ appends = 0
    /\ lastCall = [op |-> "none"]
    /\ ret = None
    /\ parts = <<>>
    /\ storeRaised = None

Next ==
    \/ \E text \in Texts : Call(text) /\ UNCHANGED <<storeVars, genVars, indexVars, concVars>>
    \/ StructuralChecks /\ UNCHANGED <<storeVars, genVars, indexVars, concVars>>
    \/ Load /\ UNCHANGED <<storeVars, genVars, indexVars, concVars>>
    \/ ConstructTask /\ UNCHANGED <<storeVars, genVars, indexVars, concVars>>
    \/ ConstructEnv /\ UNCHANGED <<storeVars, genVars, indexVars, concVars>>
    \/ Reset /\ UNCHANGED <<storeVars, genVars, indexVars, concVars>>
    \/ Stage2Except /\ UNCHANGED <<storeVars, genVars, indexVars, concVars>>
    \/ Oracle /\ UNCHANGED <<storeVars, genVars, indexVars, concVars>>
    \/ Act /\ UNCHANGED <<storeVars, genVars, indexVars, concVars>>
    \/ Step /\ UNCHANGED <<storeVars, genVars, indexVars, concVars>>
    \/ AfterLoop /\ UNCHANGED <<storeVars, genVars, indexVars, concVars>>
    \/ Stage3Except /\ UNCHANGED <<storeVars, genVars, indexVars, concVars>>

\* one run of verify_task_code, with the store left alone
Init == StoreIdle /\ VerifyIdle /\ GenIdle /\ IndexIdle /\ ConcIdle

Spec == Init /\ [][Next]_vars

(***************************************************************************)
(* Claims about verify_task_code.                                          *)
(***************************************************************************)
Returned == pc = "returned"

\* the returned tuple
V == verdict[1]

InEvents(name) == \E i \in 1..Len(events) : events[i] = name

Count(name) == Cardinality({i \in 1..Len(events) : events[i] = name})

\* the stage a collaborator call belongs to
StageOf(name) ==
    IF name \in {"structural_checks", "exec"} THEN 1
    ELSE IF name \in {"TaskCls", "VIMAEnvBase", "reset"} THEN 2
    ELSE 3

\* C2: every returned value is (True, None, None) or (False, s, m) with s in
\* {1, 2, 3} and m not None; nothing is returned partially populated.
C2_VerdictShape ==
    /\ Returned <=> verdict # None
    /\ Returned =>
         \/ /\ V.success
            /\ V.failed_step = None
            /\ V.error_message = None
         \/ /\ ~V.success
            /\ V.failed_step \in {Some(1), Some(2), Some(3)}
            /\ V.error_message # None

\* a failure returned by the Stage-3 handler
C2_Witness ==
    /\ Returned
    /\ ~V.success
    /\ V.failed_step = Some(3)
    /\ pending # None

\* C3: the stages are entered only in the order 1, 2, 3; Stage 2 starts only
\* after Stage 1 passed and Stage 3 only after Stage 2 passed; a failure in
\* stage k returns Fail(k, .) with no call of a later stage made; no stage is
\* run twice.
C3_StageOrder ==
    /\ \A i, j \in 1..Len(events) :
         i < j => StageOf(events[i]) <= StageOf(events[j])
    /\ \A name \in {"structural_checks", "exec", "TaskCls", "VIMAEnvBase",
                    "reset", "oracle"} : Count(name) <= 1
    /\ \A i \in 1..Len(events) :
         /\ StageOf(events[i]) >= 2 => 1 \in passed
         /\ StageOf(events[i]) = 3 => 2 \in passed
    /\ (Returned /\ ~V.success) =>
         /\ V.failed_step = Some(StageOf(events[Len(events)]))
         /\ \A k \in 1..3 :
              V.failed_step = Some(k) =>
                /\ \A i \in 1..Len(events) : StageOf(events[i]) <= k
                /\ \A s \in 1..(k - 1) : s \in passed
    /\ (Returned /\ V.success) => passed = {1, 2, 3}

\* Stage 2 failed at reset: Stage 1 and the three calls of Stage 2 were made,
\* in order, and nothing of Stage 3
C3_Witness ==
    /\ Returned
    /\ V.failed_step = Some(2)
    /\ events = <<"structural_checks", "exec", "TaskCls", "VIMAEnvBase", "reset">>

\* C4 as stated: whenever Stage 3 is reached, env.close() has been invoked
\* exactly once when the verdict is returned, also when close itself raises.
C4_CloseExactlyOnce ==
    (Returned /\ 2 \in passed) => closeCalls = 1

\* C5: when Stage 2 fails with the environment constructed, Fail with stage 2
\* is returned and env.close() was invoked exactly once; when it fails before
\* an environment exists, Fail with stage 2 is returned and close was not
\* invoked. (Failures here are errors `except Exception` catches.)
C5_Stage2Teardown ==
    (Returned /\ 1 \in passed /\ 2 \notin passed) =>
        /\ ~V.success
        /\ V.failed_step = Some(2)
        /\ V.error_message = Some(Str(pending[1]))
        /\ (env # None) <=> InEvents("reset")
        /\ closeCalls = IF env # None THEN 1 ELSE 0
        /\ task.goals = "empty" =>
             V.error_message = Some(Msg(
                "After reset() self.goals is empty; the oracle cannot work."))

\* reset() left goals empty: Stage 2 failed and close was invoked once
C5_Witness ==
    /\ Returned
    /\ V.failed_step = Some(2)
    /\ task.goals = "empty"
    /\ env # None
    /\ closeCalls = 1

\* C6 as stated: whatever the dynamic load of the text does, Stage 1 returns a
\* verdict and no error propagates to the caller.
C6_Stage1Total ==
    ~(pc = "raised" /\ 1 \notin passed)

\* C7: a text that contains "def oracle(" anywhere is rejected in Stage 1,
\* whatever else it contains and without being loaded.
C7_OracleOverrideRejected ==
    Contains(code, OraclePattern) =>
        /\ pc \in {"structural", "returned"}
        /\ ~InEvents("exec")
        /\ Returned => (~V.success /\ V.failed_step = Some(1))

\* rejected although the override is not at the start of the text and both
\* required patterns are there
C7_Witness ==
    /\ Returned
    /\ Contains(code, OraclePattern)
    /\ ~StartsWith(code, OraclePattern)
    /\ Contains(code, GoalsPattern)
    /\ Contains(code, SnapshotPattern)
    /\ V.failed_step = Some(1)

\* no policy was obtained (oracle returned None, or raised), or an action was
\* None
NonePolicy ==
    pending # None
        /\ pending[1] \in {Exc("Exception", "task.oracle(env) returned None"),
                           Exc("Exception", "oracle() raised")}

NoneAction ==
    pending # None
        /\ pending[1] = Exc("Exception", "The oracle returned None; cannot continue.")

\* the first step that reported done has an index below the budget and its
\* info carries a truthy success flag
DoneWithSuccess ==
    done /\ step < OracleMaxSteps(task) /\ Truthy(info.success)

C20_ValidTextPassesStage1 ==
    (/\ structural_checks(code)[1]
     /\ local_ns # None
     /\ local_ns[1].declared = "BaseTask subclass")
    => /\ 1 \in passed
       /\ TaskCls = DeclaredClassName(code)
       /\ pc # "returned" \/ verdict[1].failed_step # Some(1)

\* the message of the first static check a text fails, in the order oracle
\* override, goal registration, snapshot finalisation; None when it fails none
FirstFailedCheck(src) ==
    IF Contains(src, OraclePattern)
    THEN Some(Msg("Should not override oracle(); inherit BaseTask.oracle instead."))
    ELSE IF ~Contains(src, GoalsPattern)
    THEN Some(Msg("No self.goals.append(...) found in reset(); oracle has no goals to follow."))
    ELSE IF ~Contains(src, SnapshotPattern)
    THEN Some(Msg("Missing self._all_goals = self.goals.copy() after setting goals."))
    ELSE None

\* C21: the text is executed only after the three static checks passed; a
\* text that contains "def oracle(", or lacks the goal-registration pattern, or
\* lacks the snapshot pattern, gets Fail with stage 1 and the message of the
\* first failing check, and is never executed.
C21_ExecOnlyAfterChecks ==
    /\ InEvents("exec") =>
         /\ events[1] = "structural_checks"
         /\ ~Contains(code, OraclePattern)
         /\ Contains(code, GoalsPattern)
         /\ Contains(code, SnapshotPattern)
    /\ (pc \notin {"idle", "structural"} /\ FirstFailedCheck(code) # None) =>
         /\ Returned
         /\ verdict = Fail(1, FirstFailedCheck(code)[1])
         /\ ~InEvents("exec")
         /\ local_ns = None

\* a text with the goal registration and without the snapshot was rejected
\* with the snapshot message, unexecuted
C21_Witness ==
    /\ Returned
    /\ ~Contains(code, OraclePattern)
    /\ Contains(code, GoalsPattern)
    /\ ~Contains(code, SnapshotPattern)
    /\ verdict = Fail(1, Msg("Missing self._all_goals = self.goals.copy() after setting goals."))
    /\ events = <<"structural_checks">>

\* C22: in Stage 3 at most oracle_max_steps calls of env.step are made (10
\* when the task has no such attribute), and no policy query and no env.step
\* call follows the first step at which the environment reported done.
C22_BoundedSteps ==
    /\ Count("step") <= OracleMaxSteps(task)
    /\ Count("act") <= OracleMaxSteps(task)
    /\ ~task.has_oracle_max_steps => Count("step") <= 10
    /\ done =>
         /\ events[Len(events)] = "step"
         /\ Count("step") = step + 1
         /\ Count("act") = step + 1

\* the second step reported done under the default budget, and the run
\* returned with two steps made
C22_Witness ==
    /\ Returned
    /\ ~task.has_oracle_max_steps
    /\ done
    /\ Count("step") = 2
    /\ Count("act") = 2

OracleReturnedNone ==
    pending = Some(Exc("Exception", "task.oracle(env) returned None"))

\* C24: when task.oracle(env) returns None, Stage 3 fails with stage 3 and no
\* policy query or env.step call is made; when the policy returns a None
\* action, Stage 3 fails with stage 3 at once: that action is not handed to
\* env.step and no further step is taken, also with budget left.
C24_NoneIsHardFailure ==
    /\ OracleReturnedNone =>
         /\ pc \in {"stage3_except", "returned"}
         /\ ~InEvents("act")
         /\ ~InEvents("step")
         /\ Returned => verdict = Fail(3, Msg("task.oracle(env) returned None"))
    /\ NoneAction =>
         /\ pc \in {"stage3_except", "returned"}
         /\ events[Len(events)] = "act"
         /\ Count("step") = Count("act") - 1
         /\ Returned =>
              verdict = Fail(3, Msg("The oracle returned None; cannot continue."))

\* the policy returned None at its second query under the default budget:
\* one step had been made, and Fail with stage 3 was returned
C24_Witness ==
    /\ Returned
    /\ NoneAction
    /\ ~task.has_oracle_max_steps
    /\ Count("act") = 2
    /\ Count("step") = 1
    /\ V.failed_step = Some(3)

\* env.close() raised an error that `except Exception` catches
CloseRaised == pending = Some(Exc("Exception", "close() raised"))

\* C29: Pass is returned only if env.close() on the success path returned;
\* when the oracle run succeeded and env.close() raises, the verdict is Fail
\* with stage 3 and the text of the close error.
C29_PassNeedsClose ==
    /\ (Returned /\ V.success) =>
         /\ success
         /\ pending = None
         /\ closeCalls = 1
    /\ (Returned /\ success /\ CloseRaised) =>
         verdict = Fail(3, Msg("close() raised"))

\* the run succeeded at its first step, env.close() raised, and Fail with
\* stage 3 was returned
C29_Witness ==
    /\ Returned
    /\ success
    /\ DoneWithSuccess
    /\ CloseRaised
    /\ 3 \in passed
    /\ verdict = Fail(3, Msg("close() raised"))

(***************************************************************************)
(* cli.py: values.                                                         *)
(***************************************************************************)
\* the messages verify_task_code can return, in the order of its code
MessageTexts ==
    <<"Should not override oracle(); inherit BaseTask.oracle instead.",
      "No self.goals.append(...) found in reset(); oracle has no goals to follow.",
      "Missing self._all_goals = self.goals.copy() after setting goals.",
      "invalid syntax",
      "Cannot find a class definition in the generated code.",
      "Cannot find class {} in the exec environment",
      "issubclass() arg 1 must be a class",
      "{} does not inherit BaseTask",
      "TaskCls() raised",
      "VIMAEnvBase() raised",
      "reset() raised",
      "After reset() self.goals is empty; the oracle cannot work.",
      "After reset() self._all_goals is not initialised.",
      "prompt preview raised",
      "oracle() raised",
      "task.oracle(env) returned None",
      "act() raised",
      "The oracle returned None; cannot continue.",
      "step() raised",
      "Did not complete the task within {} steps. info={}",
      "close() raised">>

\* the characters of error_msg: the empty message has none, any other is
\* written as "m" and its number in MessageTexts, followed by the step budget
\* where line 166 formats it in
MsgChars(msg) ==
    IF msg.text = "" THEN <<>>
    ELSE <<"m">>
        \o IntToStr(CHOOSE k \in 1..Len(MessageTexts) : MessageTexts[k] = msg.text)
        \o (IF msg.args = <<>> THEN <<>> ELSE <<" ">> \o IntToStr(msg.args[1]))

\* verifier.py line 34: task_name\s*=\s*["']([^"']+)["'] matched at position
\* i; the result is <<matched, name>>
Quotes == {"\"", "'"}

TaskNameMatchAt(s, i) ==
    IF i + 8 > Len(s)
        \/ SubSeq(s, i, Min(i + 8, Len(s)))
             # <<"t", "a", "s", "k", "_", "n", "a", "m", "e">>
    THEN <<FALSE, <<>>>>
    ELSE LET eq == SkipWhile(s, i + 9, RegexSpace)
             q1 == SkipWhile(s, Min(eq + 1, Len(s) + 1), RegexSpace)
             q2 == CHOOSE q \in Min(q1 + 1, Len(s) + 1)..(Len(s) + 1) :
                     /\ q = Len(s) + 1 \/ s[q] \in Quotes
                     /\ \A r \in (q1 + 1)..(q - 1) : s[r] \notin Quotes
         IN  IF /\ eq <= Len(s)
                /\ s[eq] = "="
                /\ q1 <= Len(s)
                /\ s[q1] \in Quotes
                /\ q2 <= Len(s)
                /\ q2 > q1 + 1
             THEN <<TRUE, SubSeq(s, q1 + 1, q2 - 1)>>
             ELSE <<FALSE, <<>>>>

\* verifier.py lines 33-35: the first match, or None
extract_task_name_literal(src) ==
    IF \E i \in 1..Len(src) : TaskNameMatchAt(src, i)[1]
    THEN Some(TaskNameMatchAt(src,
                  CHOOSE i \in 1..Len(src) :
                      /\ TaskNameMatchAt(src, i)[1]
                      /\ \A j \in 1..(i - 1) : ~TaskNameMatchAt(src, j)[1])[2])
    ELSE None

\* lines 25-28: the name save_task_code writes to
SaveFileName(src) ==
    (IF extract_task_name_literal(src) = None
     THEN <<"g", "e", "n", "e", "r", "a", "t", "e", "d", "_", "t", "a", "s", "k">>
     ELSE extract_task_name_literal(src)[1])
        \o <<".", "p", "y">>

(***************************************************************************)
(* cli.py: main, one action per call it makes.                             *)
(***************************************************************************)
\* the texts the code-generation step returns: one that overrides oracle, one
\* that passes the structural checks and names its task
GenTexts ==
    {OraclePattern,
     Join(<<GoalsPattern, SnapshotPattern,
            <<"c", "l", "a", "s", "s", " ", "T", "(", "B", "a", "s", "e", "T",
              "a", "s", "k", ")", ":">>,
            <<"t", "a", "s", "k", "_", "n", "a", "m", "e", " ", "=", " ", "'",
              "t", "'">>>>, <<"\n">>)}

\* an entry of the trace: the call, the candidate it was made for, what was
\* passed and how it ended
Ev(op, arg, out) == [op |-> op, cand |-> cand, arg |-> arg, out |-> out]

\* an exception leaves main
MainRaises(e) ==
    /\ gpc' = "raised"
    /\ mainRaised' = Some(e)

\* line 80: the next iteration of `for i in range(args.n)`, or the end
ContinueStops ==
    /\ cand' = cand + 1
    /\ gpc' = "done"

\* line 80, with lines 75-78 run again for every candidate
ContinueRebuilds ==
    /\ cand' = cand + 1
    /\ gpc' = IF cand + 1 < args.n THEN "start" ELSE "done"

Continue ==
    /\ cand' = cand + 1
    /\ gpc' = IF cand + 1 < args.n THEN "propose" ELSE "done"

\* verifier.py lines 67-186 as main sees it: the tuples a call can return for
\* this text, one for each way it ends (the structural checks fail; exec
\* raises an error with an empty message; reset raises; the oracle run of a
\* task with oracle_max_steps = 0 does not succeed; every stage passes)
VerifyOutcomes(src) ==
    IF ~structural_checks(src)[1]
    THEN {Fail(1, structural_checks(src)[2])}
    ELSE {Fail(1, Str(Exc("Exception", ""))),
          Fail(2, Str(Exc("Exception", "reset() raised"))),
          Fail(3, NotCompletedMsg([NoTask EXCEPT !.has_oracle_max_steps = TRUE],
                                  EmptyInfo)),
          Pass}

\* lines 75-78: the retriever, built over the corpus that load_all_task_docs
\* returns (rag_generator.py lines 189-195), the API reference and the
\* failure-memory text
Setup ==
    /\ gpc = "start"
    /\ \/ /\ MainRaises("load_all_task_docs() raised")
          /\ trace' = trace \o <<Ev("load_all_task_docs", None, "Exception")>>
          /\ UNCHANGED <<storeVars, cand, past_failures_text>>
       \/ /\ MainRaises("build_retriever() raised")
          /\ trace' = trace \o <<Ev("load_all_task_docs", None, "returns"),
                                  Ev("build_retriever", None, "Exception")>>
          /\ UNCHANGED <<storeVars, cand, past_failures_text>>
       \/ /\ get_past_failures_for_prompt
          /\ trace' = trace \o
                 <<Ev("load_all_task_docs", None, "returns"),
                   Ev("build_retriever", None, "returns"),
                   Ev("get_api_reference_text", None, "returns"),
                   Ev("get_past_failures_for_prompt", None,
                      IF storeRaised' = None THEN "returns" ELSE "Exception")>>
          /\ IF storeRaised' # None
             THEN /\ MainRaises(storeRaised'[1])
                  /\ UNCHANGED <<cand, past_failures_text>>
             ELSE /\ past_failures_text' = ret'
                  /\ cand' = 0
                  /\ gpc' = IF 0 < args.n THEN "propose" ELSE "done"
                  /\ UNCHANGED mainRaised
    /\ UNCHANGED <<args, proposal, candCode, result, generated_tasks>>
    /\ UNCHANGED verifyVars

\* lines 85-100
Propose ==
    /\ gpc = "propose"
    /\ \E out \in CallOutcomes :
         /\ trace' = Append(trace, Ev("propose_new_task", None, out))
         /\ IF out = "returns"
            THEN /\ proposal' = Some([task_name |-> <<"t">>])
                 /\ gpc' = "generate"
                 /\ UNCHANGED <<cand, mainRaised>>
            ELSE IF out = "Exception"
            THEN /\ Continue
                 /\ UNCHANGED <<proposal, mainRaised>>
            ELSE /\ MainRaises("propose_new_task() raised")
                 /\ UNCHANGED <<cand, proposal>>
    /\ UNCHANGED <<args, past_failures_text, candCode, result, generated_tasks>>
    /\ UNCHANGED <<storeVars, verifyVars>>

\* lines 104-123
Generate ==
    /\ gpc = "generate"
    /\ \/ \E text \in GenTexts :
            /\ trace' = Append(trace, Ev("generate_new_task_code",
                                         past_failures_text, "returns"))
            /\ candCode' = text
            /\ gpc' = "verify"
            /\ UNCHANGED <<cand, mainRaised>>
       \/ /\ trace' = Append(trace, Ev("generate_new_task_code",
                                       past_failures_text, "Exception"))
          /\ Continue
          /\ UNCHANGED <<candCode, mainRaised>>
       \/ /\ trace' = Append(trace, Ev("generate_new_task_code",
                                       past_failures_text, "BaseException"))
          /\ MainRaises("generate_new_task_code() raised")
          /\ UNCHANGED <<cand, candCode>>
    /\ UNCHANGED <<args, past_failures_text, proposal, result, generated_tasks>>
    /\ UNCHANGED <<storeVars, verifyVars>>

\* line 125: verify_task_code returns a tuple, or an exception that its
\* handlers do not catch (raised while the text is executed) leaves main too
Verify ==
    /\ gpc = "verify"
    /\ \/ \E v \in VerifyOutcomes(candCode) :
            /\ trace' = Append(trace, Ev("verify_task_code", candCode, v))
            /\ result' = v
            /\ gpc' = "record"
            /\ UNCHANGED mainRaised
       \/ /\ structural_checks(candCode)[1]
          /\ trace' = Append(trace, Ev("verify_task_code", candCode, None))
          /\ MainRaises("verify_task_code() raised")
          /\ UNCHANGED result
    /\ UNCHANGED <<args, cand, past_failures_text, proposal, candCode,
                   generated_tasks>>
    /\ UNCHANGED <<storeVars, verifyVars>>

\* lines 126-129, with `failed_step and error_msg` tested for truth instead
\* of `is not None`: a failure with an empty message is not recorded
RecordUnlessEmpty ==
    /\ gpc = "record"
    /\ IF /\ ~result[1].success
          /\ result[1].failed_step # None
          /\ result[1].error_message # None
          /\ MsgChars(result[1].error_message[1]) # <<>>
       THEN /\ append_failed(candCode, result[1].failed_step[1],
                             MsgChars(result[1].error_message[1]),
                             proposal[1].task_name)
            /\ trace' = Append(trace,
                   Ev("append_failed", lastCall'.entry,
                      IF storeRaised' = None THEN "returns" ELSE "Exception"))
            /\ IF storeRaised' # None
               THEN MainRaises(storeRaised'[1])
               ELSE gpc' = "save" /\ UNCHANGED mainRaised
       ELSE /\ gpc' = "save"
            /\ UNCHANGED <<storeVars, trace, mainRaised>>
    /\ UNCHANGED <<args, cand, past_failures_text, proposal, candCode, result,
                   generated_tasks>>
    /\ UNCHANGED verifyVars

\* lines 126-129: a failure is recorded
Record ==
    /\ gpc = "record"
    /\ IF /\ ~result[1].success
          /\ result[1].failed_step # None
          /\ result[1].error_message # None
       THEN /\ append_failed(candCode, result[1].failed_step[1],
                             MsgChars(result[1].error_message[1]),
                             proposal[1].task_name)
            /\ trace' = Append(trace,
                   Ev("append_failed", lastCall'.entry,
                      IF storeRaised' = None THEN "returns" ELSE "Exception"))
            /\ IF storeRaised' # None
               THEN MainRaises(storeRaised'[1])
               ELSE gpc' = "save" /\ UNCHANGED mainRaised
       ELSE /\ gpc' = "save"
            /\ UNCHANGED <<storeVars, trace, mainRaised>>
    /\ UNCHANGED <<args, cand, past_failures_text, proposal, candCode, result,
                   generated_tasks>>
    /\ UNCHANGED verifyVars

\* save_task_code, lines 24-31: the file of that name is created or replaced
Saved(src) ==
    {f \in generated_tasks : f.name # SaveFileName(src)}
        \cup {[name |-> SaveFileName(src), text |-> src]}

\* line 131: `args.save and ok`
ShouldSaveAny == args.save

ShouldSave == args.save /\ result[1].success

\* lines 131-138, then the next iteration; os.makedirs or open can raise
Save ==
    /\ gpc = "save"
    /\ IF ShouldSave
       THEN \/ /\ trace' = Append(trace, Ev("save_task_code", candCode, "returns"))
               /\ generated_tasks' = Saved(candCode)
               /\ Continue
               /\ UNCHANGED mainRaised
            \/ /\ trace' = Append(trace, Ev("save_task_code", candCode, "Exception"))
               /\ MainRaises("OSError")
               /\ UNCHANGED <<generated_tasks, cand>>
       ELSE /\ Continue
            /\ UNCHANGED <<trace, generated_tasks, mainRaised>>
    /\ UNCHANGED <<args, past_failures_text, proposal, candCode, result>>
    /\ UNCHANGED <<storeVars, verifyVars>>

\* the files the failure memory starts from in a run of main
GenInitFiles ==
    {[kind |-> k, items |-> <<>>] : k \in {"missing", "unreadable", "badutf8"}}
    \cup {[kind |-> "list", items |-> <<InitRec(1)>>]}

\* main is called with --n 0 .. MaxAppends, with or without --save
GenInit ==
    /\ file \in GenInitFiles
    /\ appends = 0
    /\ lastCall = [op |-> "none"]
    /\ ret = None
    /\ parts = <<>>
    /\ storeRaised = None
    /\ VerifyIdle
    /\ gpc = "start"
    /\ args \in [n : 0..MaxAppends, save : BOOLEAN]
    /\ cand = 0
    /\ past_failures_text = None
    /\ proposal = None
    /\ candCode = <<>>
    /\ result = None
    /\ trace = <<>>
    /\ generated_tasks = {}
    /\ mainRaised = None
    /\ IndexIdle
    /\ ConcIdle

GenNext ==
    \/ Setup /\ UNCHANGED <<indexVars, concVars>>
    \/ Propose /\ UNCHANGED <<indexVars, concVars>>
    \/ Generate /\ UNCHANGED <<indexVars, concVars>>
    \/ Verify /\ UNCHANGED <<indexVars, concVars>>
    \/ Record /\ UNCHANGED <<indexVars, concVars>>
    \/ Save /\ UNCHANGED <<indexVars, concVars>>

GenSpec == GenInit /\ [][GenNext]_vars

(***************************************************************************)
(* Claims about the generation loop.                                       *)
(***************************************************************************)
\* positions of the trace
Calls == 1..Len(trace)

\* the calls made inside the loop, for one candidate
CandidateOps ==
    {"propose_new_task", "generate_new_task_code", "verify_task_code",
     "append_failed", "save_task_code"}

\* the text holds the error line and the snippet of the record, as a stanza
\* shows them
Includes(text, entry) ==
    Contains(text, Join(<<ErrorLine(entry.error),
                          Stanza(1, entry)[3],
                          entry.code_snippet>>, <<"\n">>))

\* C13: when candidate i fails verification, the failure-memory text passed
\* to the code-generation step of every later candidate of the same run
\* includes the record of candidate i's failure.
C13_LaterCandidatesSeeFailure ==
    \A a \in Calls, g \in Calls :
        (/\ trace[a].op = "append_failed"
         /\ trace[a].out = "returns"
         /\ trace[g].op = "generate_new_task_code"
         /\ trace[g].cand > trace[a].cand)
        => Includes(trace[g].arg[1], trace[a].arg)

\* the candidate's step raised an error that `except Exception` catches
Skipped(k) ==
    /\ trace[k].op \in {"propose_new_task", "generate_new_task_code"}
    /\ trace[k].out = "Exception"

\* C14: when the proposal step or the code-generation step raises for
\* candidate i, nothing more is done for candidate i (no verification, no
\* append to the store, no save; after a failed proposal no generation), the
\* next call main makes is the proposal of candidate i + 1, and a run that
\* ends has attempted all n candidates.
C14_SkipOnlyThatCandidate ==
    /\ \A k \in Calls :
         Skipped(k) =>
           /\ \A j \in Calls :
                (/\ j # k
                 /\ trace[j].op \in CandidateOps
                 /\ trace[j].cand = trace[k].cand) =>
                  /\ j < k
                  /\ trace[j].op \in {"propose_new_task"}
                  /\ trace[j].out = "returns"
           /\ cand > trace[k].cand
           /\ k < Len(trace) =>
                /\ trace[k + 1].op = "propose_new_task"
                /\ trace[k + 1].cand = trace[k].cand + 1
           /\ (k = Len(trace) /\ trace[k].cand + 1 < args.n) => gpc = "propose"
    /\ gpc = "done" =>
         \A c \in 0..(args.n - 1) :
            \E k \in Calls : trace[k].op = "propose_new_task" /\ trace[k].cand = c

\* a finished run of two candidates: the proposal of the first raised, the
\* code generation of the second raised
C14_Witness ==
    /\ gpc = "done"
    /\ args.n = 2
    /\ \E k \in Calls :
         trace[k].op = "propose_new_task" /\ trace[k].cand = 0 /\ Skipped(k)
    /\ \E k \in Calls :
         trace[k].op = "generate_new_task_code" /\ trace[k].cand = 1 /\ Skipped(k)

\* C15: an exception raised anywhere in a candidate's pipeline (proposal,
\* generation, verification, recording the failure, saving) is caught in
\* main: once the loop has started no exception leaves main.
C15_NothingLeavesTheLoop ==
    gpc = "raised" => \A k \in Calls : trace[k].op \notin CandidateOps

\* C16: a file is written into the generated-task directory only for a
\* candidate whose verification returned Pass and only when --save was given;
\* every file in the directory holds code that passed.
C16_OnlyVerifiedCodeSaved ==
    /\ \A k \in Calls :
         trace[k].op = "save_task_code" =>
           /\ args.save
           /\ \E j \in 1..(k - 1) :
                /\ trace[j].op = "verify_task_code"
                /\ trace[j].cand = trace[k].cand
                /\ trace[j].arg = trace[k].arg
                /\ trace[j].out = Pass
    /\ \A f \in generated_tasks :
         /\ args.save
         /\ \E j \in Calls :
              /\ trace[j].op = "verify_task_code"
              /\ trace[j].arg = f.text
              /\ trace[j].out = Pass
    /\ \A c \in 0..(args.n - 1) :
         (\A j \in Calls :
            (trace[j].op = "verify_task_code" /\ trace[j].cand = c)
               => trace[j].out # Pass)
         => \A k \in Calls :
              ~(trace[k].op = "save_task_code" /\ trace[k].cand = c)

\* a finished run with --save in which one candidate failed and was not
\* saved and another passed and was saved
C16_Witness ==
    /\ gpc = "done"
    /\ args.save
    /\ generated_tasks # {}
    /\ \E k \in Calls : trace[k].op = "append_failed"
    /\ \E k \in Calls : trace[k].op = "save_task_code" /\ trace[k].out = "returns"

\* verify_task_code returned Fail at position k of the trace
VerifyFailedAt(k) ==
    /\ trace[k].op = "verify_task_code"
    /\ trace[k].out # None
    /\ ~trace[k].out[1].success

\* the calls of append_failed made for candidate c
AppendsFor(c) ==
    {j \in Calls : trace[j].op = "append_failed" /\ trace[j].cand = c}

\* the trace part of C25: a Fail is followed at once by the one append_failed
\* call of that candidate, which carries the text, the stage and the message;
\* no other candidate has an append_failed call
AppendFollowsFail ==
    /\ \A k \in Calls :
         (VerifyFailedAt(k) /\ (k < Len(trace) \/ gpc # "record")) =>
            /\ k < Len(trace)
            /\ trace[k + 1].op = "append_failed"
            /\ trace[k + 1].cand = trace[k].cand
            /\ trace[k].out[1].failed_step[1] \in {1, 2, 3}
            /\ trace[k + 1].arg =
                 Entry(trace[k].arg, trace[k].out[1].failed_step[1],
                       MsgChars(trace[k].out[1].error_message[1]), <<"t">>)
            /\ AppendsFor(trace[k].cand) = {k + 1}
    /\ \A j \in Calls :
         trace[j].op = "append_failed" => (j > 1 /\ VerifyFailedAt(j - 1))

\* the frame part of C25: the store file changes only in the step that
\* records a failed verification
StoreChangesOnlyOnFail ==
    file' # file =>
        /\ gpc = "record"
        /\ ~result[1].success
        /\ Len(trace') = Len(trace) + 1
        /\ trace'[Len(trace')].op = "append_failed"
        /\ file' = Written(Evict(Append(load_raw(file), trace'[Len(trace')].arg)))

\* C25: each candidate whose verification returns Fail causes exactly one
\* append_failed call, made before the next candidate's proposal and carrying
\* the verdict's stage and message; a candidate that passes, and one skipped
\* because proposal or generation failed, leaves the failure store unchanged.
C25_OneAppendPerFailure ==
    []AppendFollowsFail /\ [][StoreChangesOnlyOnFail]_vars

\* a finished run of two candidates: the first failed with an empty message
\* and was recorded, the second passed, and the store holds that one record
\* more
C25_Witness ==
    /\ gpc = "done"
    /\ args.n = 2
    /\ \E k \in Calls :
         /\ VerifyFailedAt(k)
         /\ trace[k].cand = 0
         /\ trace[k].out[1].error_message = Some(Msg(""))
         /\ trace[k + 1].op = "append_failed"
         /\ trace[k + 1].out = "returns"
         /\ file.kind = "list"
         /\ file.items[Len(file.items)] = trace[k + 1].arg
    /\ \E k \in Calls :
         trace[k].op = "verify_task_code" /\ trace[k].cand = 1 /\ trace[k].out = Pass

\* the corpus, the retriever over it, and the failure-memory text
BuiltOnceOps ==
    {"load_all_task_docs", "build_retriever", "get_past_failures_for_prompt"}

CallsOf(op) == {k \in Calls : trace[k].op = op}

\* the loop has been entered, or passed over with n = 0
LoopReached ==
    \/ gpc \in {"propose", "generate", "verify", "record", "save", "done"}
    \/ \E k \in Calls : trace[k].op \in CandidateOps

\* C26: in a run of n candidates the corpus is built once, the retrieval
\* context once and the failure-memory text rendered once, all before the
\* first candidate's proposal; none of the three is done again in the loop.
C26_BuiltOnce ==
    /\ \A op \in BuiltOnceOps : Cardinality(CallsOf(op)) <= 1
    /\ \A k \in Calls, j \in Calls :
         (trace[k].op \in BuiltOnceOps /\ trace[j].op \in CandidateOps) => k < j
    /\ LoopReached =>
         \A op \in BuiltOnceOps :
            \E k \in Calls :
               /\ CallsOf(op) = {k}
               /\ trace[k].out = "returns"
               /\ k <= 4

\* a finished run of two candidates, both verified, with one call of each of
\* the three
C26_Witness ==
    /\ gpc = "done"
    /\ args.n = 2
    /\ Cardinality(CallsOf("verify_task_code")) = 2
    /\ Cardinality(CallsOf("generate_new_task_code")) = 2
    /\ \A op \in BuiltOnceOps : Cardinality(CallsOf(op)) = 1

\* the proposals made for candidate c
ProposalsFor(c) ==
    {k \in Calls : trace[k].op = "propose_new_task" /\ trace[k].cand = c}

\* main has ended after entering the loop
LoopOver == gpc \in {"done", "raised"} /\ LoopReached

\* C27: the candidates are processed one after another: every call made for
\* candidate i comes before the proposal of candidate i + 1, no candidate is
\* proposed twice, and when main has ended each of the n candidates has been
\* attempted exactly once.
C27_EveryCandidateOnce ==
    /\ \A k \in Calls, j \in Calls :
         (/\ trace[k].op \in CandidateOps
          /\ trace[j].op \in CandidateOps
          /\ k < j) => trace[k].cand <= trace[j].cand
    /\ \A c \in 0..(args.n - 1) : Cardinality(ProposalsFor(c)) <= 1
    /\ \A k \in Calls : trace[k].op \in CandidateOps => trace[k].cand < args.n
    /\ LoopOver =>
         \A c \in 0..(args.n - 1) : Cardinality(ProposalsFor(c)) = 1

(***************************************************************************)
(* task_index.py: text operations.                                         *)
(***************************************************************************)
\* the printable ASCII characters in code-point order: " " (32) to "_" (95)
\* and "a" (97) to "~" (126)
AsciiLow ==
    <<
      " ", "!", "\"", "#", "$", "%", "&", "'", "(", ")", "*", "+",
      ",", "-", ".", "/", "0", "1", "2", "3", "4", "5", "6", "7",
      "8", "9", ":", ";", "<", "=", ">", "?", "@", "A", "B", "C",
      "D", "E", "F", "G", "H", "I", "J", "K", "L", "M", "N", "O",
      "P", "Q", "R", "S", "T", "U", "V", "W", "X", "Y", "Z", "[",
      "\\", "]", "^", "_"
    >>

AsciiHigh ==
    <<
      "a", "b", "c", "d", "e", "f", "g", "h", "i", "j", "k", "l",
      "m", "n", "o", "p", "q", "r", "s", "t", "u", "v", "w", "x",
      "y", "z", "{", "|", "}", "~"
    >>

\* ord(c)
CodePoint(c) ==
    IF \E k \in 1..Len(AsciiLow) : AsciiLow[k] = c
    THEN 31 + (CHOOSE k \in 1..Len(AsciiLow) : AsciiLow[k] = c)
    ELSE 96 + (CHOOSE k \in 1..Len(AsciiHigh) : AsciiHigh[k] = c)

\* x < y on str: by code point at the first difference, a proper prefix first
StrLess(x, y) ==
    \E k \in 1..(Min(Len(x), Len(y)) + 1) :
        /\ \A j \in 1..(k - 1) : x[j] = y[j]
        /\ IF k > Len(x) THEN k <= Len(y)
           ELSE k <= Len(y) /\ CodePoint(x[k]) < CodePoint(y[k])

\* line 123: sorted(names), by insertion from the left as the listing gives
\* them
RECURSIVE InsertSorted(_, _)
InsertSorted(sortedNames, name) ==
    IF sortedNames = <<>> THEN <<name>>
    ELSE IF StrLess(name, Head(sortedNames))
    THEN <<name>> \o sortedNames
    ELSE <<Head(sortedNames)>> \o InsertSorted(Tail(sortedNames), name)

unsorted(names) == names

RECURSIVE sorted(_)
sorted(names) ==
    IF names = <<>> THEN <<>>
    ELSE InsertSorted(sorted(SubSeq(names, 1, Len(names) - 1)),
                      names[Len(names)])

\* s.endswith(pat)
EndsWith(s, pat) ==
    Len(s) >= Len(pat) /\ SubSeq(s, Len(s) - Len(pat) + 1, Len(s)) = pat

\* position of the first occurrence of the character c in s, 0 if none
Find(s, c) ==
    IF \E k \in 1..Len(s) : s[k] = c
    THEN CHOOSE k \in 1..Len(s) : s[k] = c /\ \A j \in 1..(k - 1) : s[j] # c
    ELSE 0

\* lines 33-39
split_full_task_name(full_name) ==
    IF Find(full_name, "/") > 0
    THEN [group     |-> SubSeq(full_name, 1, Find(full_name, "/") - 1),
          task_name |-> SubSeq(full_name, Find(full_name, "/") + 1,
                               Len(full_name))]
    ELSE [group     |-> <<"u", "n", "k", "n", "o", "w", "n">>,
          task_name |-> full_name]

\* line 86, re.MULTILINE: ^#\s*group\s*:\s*([A-Za-z0-9_\/\-]+) matched at
\* position i, which must open a line; the result is <<matched, group>>
GroupChars == Lower \cup Upper \cup Digits \cup {"_", "/", "-"}

GroupMatchAt(s, i) ==
    IF ~(i = 1 \/ s[i - 1] = "\n") \/ s[i] # "#"
    THEN <<FALSE, <<>>>>
    ELSE LET p1 == SkipWhile(s, i + 1, RegexSpace)
             p2 == SkipWhile(s, Min(p1 + 5, Len(s) + 1), RegexSpace)
             p3 == SkipWhile(s, Min(p2 + 1, Len(s) + 1), RegexSpace)
             p4 == SkipWhile(s, p3, GroupChars)
         IN  IF /\ p1 + 4 <= Len(s)
                /\ SubSeq(s, p1, Min(p1 + 4, Len(s)))
                     = <<"g", "r", "o", "u", "p">>
                /\ p2 <= Len(s)
                /\ s[p2] = ":"
                /\ p4 > p3
             THEN <<TRUE, SubSeq(s, p3, p4 - 1)>>
             ELSE <<FALSE, <<>>>>

\* lines 82-90
infer_group_from_text(text) ==
    IF \E i \in 1..Len(text) : GroupMatchAt(text, i)[1]
    THEN Strip(GroupMatchAt(text,
                   CHOOSE i \in 1..Len(text) :
                       /\ GroupMatchAt(text, i)[1]
                       /\ \A j \in 1..(i - 1) : ~GroupMatchAt(text, j)[1])[2])
    ELSE <<"g", "e", "n", "e", "r", "a", "t", "e", "d">>

\* line 99: os.path.splitext(os.path.basename(path))[0]; the extension starts
\* at the last dot that has a character other than a dot before it
Stem(fname) ==
    LET dots == {k \in 1..Len(fname) : fname[k] = "."}
        d    == IF dots = {} THEN 0
                ELSE CHOOSE k \in dots : \A j \in dots : j <= k
    IN  IF d > 0 /\ \E j \in 1..(d - 1) : fname[j] # "."
        THEN SubSeq(fname, 1, d - 1)
        ELSE fname

\* lines 93-99
infer_task_name_from_text(fname, text) ==
    IF extract_task_name_literal(text) # None
    THEN Strip(extract_task_name_literal(text)[1])
    ELSE Stem(fname)

\* lines 102-104: the same pattern as verifier.py line 27
infer_class_name_from_text(text) == extract_class_name(text)

(***************************************************************************)
(* task_index.py: the corpus.                                              *)
(***************************************************************************)
\* lines 47-56: what inspect finds for the class; an OSError from getsource
\* leaves the source empty and the module "unknown"
ModuleName(cls) ==
    IF cls.source = None \/ cls.module = None
    THEN <<"u", "n", "k", "n", "o", "w", "n">>
    ELSE cls.module[1]

\* lines 46-78
BuiltinDoc(full_name, cls) ==
    LET name == split_full_task_name(full_name)
    IN  [id         |-> <<"b", "u", "i", "l", "t", "i", "n", ":", ":">>
                            \o name.group \o <<"/">> \o name.task_name,
         origin     |-> "builtin",
         group      |-> name.group,
         task_name  |-> name.task_name,
         class_name |-> Some(cls.name),
         module     |-> Some(ModuleName(cls)),
         text       |-> Join(
             <<<<"[", "B", "U", "I", "L", "T", "I", "N", " ", "T", "A", "S", "K", "]", " ">>
                  \o name.group \o <<"/">> \o name.task_name
                  \o <<" ", "(">> \o cls.name \o <<")">>,
               <<"M", "o", "d", "u", "l", "e", ":", " ">> \o ModuleName(cls),
               <<>>,
               <<"D", "o", "c", "s", "t", "r", "i", "n", "g", ":">>,
               cls.doc,
               <<>>,
               <<"S", "o", "u", "r", "c", "e", " ", "c", "o", "d", "e", ":">>,
               IF cls.source = None THEN <<>> ELSE cls.source[1]>>,
             <<"\n">>)]

\* lines 42-79: one document per entry, in the order of the mapping
load_builtin_task_docs ==
    [k \in 1..Len(registry) |-> BuiltinDoc(registry[k].key, registry[k].cls)]

\* lines 133-146
GeneratedDoc(fname, text) ==
    [id         |-> <<"g", "e", "n", "e", "r", "a", "t", "e", "d", ":", ":">> \o fname,
     origin     |-> "generated",
     group      |-> infer_group_from_text(text),
     task_name  |-> infer_task_name_from_text(fname, text),
     class_name |-> infer_class_name_from_text(text),
     module     |-> None,
     text       |-> text]

\* the file of that name in the directory
FileNamed(dir, fname) == CHOOSE f \in dir : f.name = fname

\* line 124
IsPy(fname) == EndsWith(fname, <<".", "p", "y">>)

\* lines 127-131: open raises OSError for a file that cannot be opened, and
\* f.read() raises UnicodeDecodeError, which is not an OSError, for bytes that
\* are not UTF-8
ReadRaises(f) ==
    IF f.kind = "undecodable" THEN Some("UnicodeDecodeError") ELSE None

\* lines 116-147: <<docs, raised>> for the directory and the order in which
\* os.listdir names its files
load_generated_task_docs(dir, names) ==
    IF dir = None THEN <<<<>>, None>>
    ELSE LET py   == SelectSeq(sorted(names), IsPy)
             bad  == SelectSeq(py, LAMBDA n :
                         ReadRaises(FileNamed(dir[1], n)) # None)
             read == SelectSeq(py, LAMBDA n :
                         FileNamed(dir[1], n).kind = "text")
         IN  IF bad # <<>>
             THEN <<<<>>, ReadRaises(FileNamed(dir[1], bad[1]))>>
             ELSE <<[k \in 1..Len(read) |->
                       GeneratedDoc(read[k], FileNamed(dir[1], read[k]).text)],
                    None>>

(***************************************************************************)
(* task_index.py: registries, directories and the call.                    *)
(***************************************************************************)
\* keys of the task registry: with the separator, without it, and with a
\* group that is literally "unknown"
RegistryKeys ==
    {<<"g", "/", "a">>, <<"a">>, <<"u", "n", "k", "n", "o", "w", "n", "/", "a">>}

\* the class registered under a key: with its source, without retrievable
\* source, without a module
ClassOf(key) ==
    [name   |-> <<"T">>,
     doc    |-> IF Len(key) = 1 THEN <<>> ELSE <<"d">>,
     module |-> IF Len(key) > 3 THEN None ELSE Some(<<"m">>),
     source |-> IF Len(key) = 1 THEN None ELSE Some(<<"c", "l", "a", "s", "s", " ", "T", "(", "B", "a", "s", "e", "T", "a", "s", "k", ")", ":">>)]

\* the sequences of n different elements of S
Orderings(S, n) ==
    {f \in [1..n -> S] : \A i, j \in 1..n : i # j => f[i] # f[j]}

\* a mapping has each key once
Registries ==
    {[k \in 1..Len(keys) |-> [key |-> keys[k], cls |-> ClassOf(keys[k])]] :
        keys \in UNION {Orderings(RegistryKeys, n) : n \in 0..MaxTasks}}

\* files a generated-task directory may hold
FileUniverse ==
    {[name |-> <<"b", ".", "p", "y">>, kind |-> "text",
      text |-> <<"#", " ", "g", "r", "o", "u", "p", ":", " ", "g", "1", "\n", "c", "l", "a", "s", "s", " ", "T", "(", "B", "a", "s", "e", "T", "a", "s", "k", ")", ":", "\n", "t", "a", "s", "k", "_", "n", "a", "m", "e", " ", "=", " ", "'", "t", "'">>],
     [name |-> <<"a", ".", "p", "y">>, kind |-> "text", text |-> <<>>],
     [name |-> <<"B", ".", "p", "y">>, kind |-> "text", text |-> <<"x">>],
     [name |-> <<"a", ".", "t", "x", "t">>, kind |-> "text", text |-> <<"x">>],
     [name |-> <<"u", ".", "p", "y">>, kind |-> "unreadable", text |-> <<>>],
     [name |-> <<"x", ".", "p", "y">>, kind |-> "undecodable", text |-> <<>>]}

\* the directory is missing, or holds up to MaxFiles files
Directories ==
    {None} \cup {Some(d) : d \in {d \in SUBSET FileUniverse :
                                     Cardinality(d) <= MaxFiles}}

\* line 123: os.listdir names the files in any order
Listings(dir) ==
    IF dir = None THEN {<<>>}
    ELSE Orderings({f.name : f \in dir[1]}, Cardinality(dir[1]))

\* lines 150-152
load_all_task_docs ==
    /\ loads < MaxLoads
    /\ loads' = loads + 1
    /\ \E names \in Listings(gen_dir) :
         LET generated == load_generated_task_docs(gen_dir, names)
         IN  /\ listing' = names
             /\ indexRaised' = generated[2]
             /\ docs' = IF generated[2] = None
                        THEN Some(load_builtin_task_docs \o generated[1])
                        ELSE None
    /\ prevDocs' = docs
    /\ UNCHANGED <<registry, gen_dir>>
    /\ UNCHANGED <<storeVars, verifyVars, genVars, concVars>>

IndexInit ==
    /\ registry \in Registries
    /\ gen_dir \in Directories
    /\ listing = <<>>
    /\ docs = None
    /\ prevDocs = None
    /\ indexRaised = None
    /\ loads = 0
    /\ StoreIdle
    /\ VerifyIdle
    /\ GenIdle
    /\ ConcIdle

IndexNext == load_all_task_docs

IndexSpec == IndexInit /\ [][IndexNext]_vars

(***************************************************************************)
(* Claims about the corpus.                                                *)
(***************************************************************************)
\* the last call of load_all_task_docs returned
Loaded == loads > 0 /\ docs # None

\* the files of the directory that have the extension and can be read
ReadablePy ==
    IF gen_dir = None THEN {}
    ELSE {f \in gen_dir[1] : IsPy(f.name) /\ f.kind = "text"}

\* C17: no two documents of the returned list have the same id, whatever the
\* registry (keys with or without "/", a group that is literally "unknown")
\* and whatever the files of the generated-task directory.
C17_UniqueIds ==
    Loaded =>
        \A i, j \in 1..Len(docs[1]) : i # j => docs[1][i].id # docs[1][j].id

\* C18: load_all_task_docs does not raise and returns exactly one "builtin"
\* document per registry entry and exactly one "generated" document per
\* readable file with the extension; with the directory missing it returns the
\* builtin documents only, and a file that cannot be read is skipped.
C18_OneDocPerEntryAndFile ==
    loads > 0 =>
        /\ indexRaised = None
        /\ docs # None
        /\ Len(docs[1]) = Len(registry) + Cardinality(ReadablePy)
        /\ \A k \in 1..Len(registry) :
             Cardinality({i \in 1..Len(docs[1]) :
                 /\ docs[1][i].origin = "builtin"
                 /\ docs[1][i] = BuiltinDoc(registry[k].key, registry[k].cls)}) = 1
        /\ \A f \in ReadablePy :
             Cardinality({i \in 1..Len(docs[1]) :
                 /\ docs[1][i].origin = "generated"
                 /\ docs[1][i].text = f.text
                 /\ EndsWith(docs[1][i].id, f.name)}) = 1
        /\ gen_dir = None =>
             \A i \in 1..Len(docs[1]) : docs[1][i].origin = "builtin"

\* the file name in the id of a generated document
NameInId(doc) == SubSeq(doc.id, 12, Len(doc.id))

\* C19: the returned sequence has the builtin documents first, in registry
\* order, then the generated documents in lexicographic order of their file
\* names, whatever order the directory listing had; a second call on the same
\* registry and directory returns the same sequence.
C19_StableOrder ==
    Loaded =>
        /\ \A k \in 1..Len(registry) :
             /\ k <= Len(docs[1])
             /\ docs[1][k] = BuiltinDoc(registry[k].key, registry[k].cls)
        /\ \A k \in (Len(registry) + 1)..Len(docs[1]) :
             /\ docs[1][k].origin = "generated"
             /\ k < Len(docs[1]) =>
                  StrLess(NameInId(docs[1][k]), NameInId(docs[1][k + 1]))
        /\ (loads > 1 /\ prevDocs # None) => docs = prevDocs

\* a second call, on a listing that was not in filename order, returned two
\* builtin and three generated documents, the same as the first call
C19_Witness ==
    /\ Loaded
    /\ loads = 2
    /\ Len(registry) = 2
    /\ Len(docs[1]) = 5
    /\ listing # sorted(listing)
    /\ prevDocs = docs
    /\ NameInId(docs[1][3]) = <<"B", ".", "p", "y">>

(***************************************************************************)
(* failed_store.py: append_failed run by two processes on one store file.  *)
(* Each process has its own file object: open(path, "w") empties the file, *)
(* and the text json.dump produced reaches the file from offset 0 when the *)
(* with block closes it (the texts here are shorter than the write buffer).*)
(***************************************************************************)
Procs == {1, 2}

\* json.dump(..., ensure_ascii=False): the characters written with a backslash
JsonEscaped == {"\"", "\\", "\n", "\r", "\t", "\f"}

\* length of a string as json.dump writes it, quotes included
JsonStrLen(s) ==
    Len(s) + Cardinality({i \in 1..Len(s) : s[i] \in JsonEscaped}) + 2

\* length of one record under indent=2: the braces, the four keys with their
\* indentation and separators, and the four values
JsonEntryLen(e) ==
    83 + JsonStrLen(e.task_name) + Len(IntToStr(e.failed_step))
       + JsonStrLen(e.error) + JsonStrLen(e.code_snippet)

RECURSIVE JsonEntriesLen(_, _)
JsonEntriesLen(data, n) ==
    IF n = 0 THEN 0
    ELSE JsonEntryLen(data[n]) + JsonEntriesLen(data, n - 1)

\* line 54: length of the text json.dump(data, f, indent=2) writes
JsonLen(data) ==
    IF data = <<>> THEN 2
    ELSE 4 + JsonEntriesLen(data, Len(data)) + 2 * (Len(data) - 1)

\* a file whose text is not JSON: the empty file open(path, "w") leaves, or
\* one text written over a longer one
Unparseable == [kind |-> "badjson", items |-> <<>>]

\* the text both processes pass as `code`, and the error messages
NewCode == <<"n", "e", "w">>

ConcErrors == {<<"e">>, <<"e", "e", "e">>}

\* the stores the two processes start from: none, and lists that
\* append_failed wrote, up to the full MAX_ENTRIES
ConcInitFiles ==
    {[kind |-> "missing", items |-> <<>>]}
    \cup {[kind |-> "list", items |-> [i \in 1..n |-> InitRec(i)]] :
            n \in {1, MAX_ENTRIES - 1, MAX_ENTRIES}}

\* lines 30-48: the call; process p reports failed_step = p
ConcCall(p) ==
    /\ procs[p].pc = "idle"
    /\ \E err \in ConcErrors :
         procs' = [procs EXCEPT ![p].pc = "load",
                                ![p].entry = Some(Entry(NewCode, p, err, <<"t">>))]
    /\ UNCHANGED <<file, bytes>>

\* lines 49-52: data = _load_raw(path); data.append(entry); the cut to
\* MAX_ENTRIES. `early` notes that no process had opened the file for writing
ConcLoad(p) ==
    /\ procs[p].pc = "load"
    /\ procs' =
         IF load_raw_raises(file) # None
         THEN [procs EXCEPT ![p].pc = "raised"]
         ELSE [procs EXCEPT
                 ![p].pc = "open",
                 ![p].loaded = load_raw(file),
                 ![p].data = Evict(Append(load_raw(file), procs[p].entry[1])),
                 ![p].early = \A q \in Procs : procs[q].pc \notin {"write", "done"}]
    /\ UNCHANGED <<file, bytes>>

\* line 53: open(path, "w") empties the file. `alone` notes that no other
\* process had the file open for writing
ConcOpen(p) ==
    /\ procs[p].pc = "open"
    /\ \E w \in WriteOutcomes(file) :
         IF w # None
         THEN /\ procs' = [procs EXCEPT ![p].pc = "raised"]
              /\ UNCHANGED <<file, bytes>>
         ELSE /\ file' = Unparseable
              /\ bytes' = 0
              /\ procs' = [procs EXCEPT
                             ![p].pc = "write",
                             ![p].alone = \A q \in Procs \ {p} :
                                             procs[q].pc # "write"]

\* line 54, with the loaded list written back without the new record
ConcWriteLoaded(p) ==
    /\ procs[p].pc = "write"
    /\ LET n == JsonLen(procs[p].loaded)
       IN  IF bytes <= n
           THEN /\ file' = Written(procs[p].loaded)
                /\ bytes' = n
           ELSE /\ file' = Unparseable
                /\ bytes' = bytes
    /\ procs' = [procs EXCEPT ![p].pc = "done"]

\* line 54 and the end of the with block: the text is written from offset 0;
\* where the file already holds a longer text, the rest of that text stays
\* behind the new one
ConcWrite(p) ==
    /\ procs[p].pc = "write"
    /\ LET n == JsonLen(procs[p].data)
       IN  IF bytes <= n
           THEN /\ file' = Written(procs[p].data)
                /\ bytes' = n
           ELSE /\ file' = Unparseable
                /\ bytes' = bytes
    /\ procs' = [procs EXCEPT ![p].pc = "done"]

ConcInit ==
    /\ file \in ConcInitFiles
    /\ bytes = IF file.kind = "list" THEN JsonLen(file.items) ELSE 0
    /\ procs = [p \in Procs |->
                  [pc |-> "idle", entry |-> None, loaded |-> <<>>,
                   data |-> <<>>, early |-> FALSE, alone |-> FALSE]]
    /\ appends = 0
    /\ lastCall = [op |-> "none"]
    /\ ret = None
    /\ parts = <<>>
    /\ storeRaised = None
    /\ VerifyIdle
    /\ GenIdle
    /\ IndexIdle

ConcFrame ==
    UNCHANGED <<appends, lastCall, ret, parts, storeRaised, verifyVars,
                genVars, indexVars>>

ConcNext ==
    \/ \E p \in Procs : ConcCall(p) /\ ConcFrame
    \/ \E p \in Procs : ConcLoad(p) /\ ConcFrame
    \/ \E p \in Procs : ConcOpen(p) /\ ConcFrame
    \/ \E p \in Procs : ConcWrite(p) /\ ConcFrame

ConcSpec == ConcInit /\ [][ConcNext]_vars

(***************************************************************************)
(* Claims about concurrent appends.                                        *)
(***************************************************************************)
\* both calls have returned
AllDone == \A p \in Procs : procs[p].pc = "done"

\* both processes loaded before either opened the file for writing
BothLoadedFirst == \A p \in Procs : procs[p].early

\* neither process opened the file while the other had it open
NoOverlap == \A p \in Procs : procs[p].alone

\* the stored list holds the record process p appended
Holds(p) ==
    /\ file.kind = "list"
    /\ \E i \in 1..Len(file.items) : file.items[i] = procs[p].entry[1]

\* the stored list is never longer than MAX_ENTRIES
LengthBound == file.kind = "list" => Len(file.items) <= MAX_ENTRIES

\* C28 as stated: when both processes load before either writes, the final
\* stored list holds exactly one of the two new records; the length bound
\* holds in every state of the interleaving.
C28_AsStated ==
    /\ LengthBound
    /\ (AllDone /\ BothLoadedFirst) =>
         /\ file.kind = "list"
         /\ Holds(1) # Holds(2)

\* C28 amended: when both processes load before either opens the file, the
\* final store never holds both new records. If the rewrites do not overlap,
\* it is the list the last writer loaded plus that writer's record alone (a
\* lost update); if they overlap, it is one process's list, or a text that
\* does not parse and reads back as the empty list. The length bound holds in
\* every state.
C28_LostUpdate ==
    /\ LengthBound
    /\ (AllDone /\ BothLoadedFirst) =>
         /\ procs[1].loaded = procs[2].loaded
         /\ ~(Holds(1) /\ Holds(2))
         /\ file \in {Written(procs[p].data) : p \in Procs} \cup {Unparseable}
         /\ NoOverlap =>
              \E p \in Procs :
                 /\ file = Written(Evict(Append(procs[p].loaded, procs[p].entry[1])))
                 /\ Holds(p)
                 /\ \A q \in Procs \ {p} : ~Holds(q)

\* from a full store both processes loaded first and wrote one after the
\* other: the stored list has MAX_ENTRIES records and only the second
\* process's new one
C28_Witness ==
    /\ AllDone
    /\ BothLoadedFirst
    /\ NoOverlap
    /\ Len(procs[1].loaded) = MAX_ENTRIES
    /\ Len(file.items) = MAX_ENTRIES
    /\ Holds(2)
    /\ ~Holds(1)

====
